---- MODULE Spec2Model ----
(***************************************************************************)
(* Model of the dynamic middle-ellipsis engine (binary search with DOM     *)
(* probes and fine-tune pass) and of its resize coordinator               *)
(* (truncateOnResize: option defaults, initial run, choice of the observed *)
(* element, ResizeObserver, 10 ms debounce, disposer), and of the          *)
(* character-width lookup of string-utils (font width table, measure       *)
(* cache).                                                                 *)
(*                                                                         *)
(* Strings are sequences of one-character strings.  The layout engine of   *)
(* the browser is modelled by per-character advance widths: a nowrap box   *)
(* (lineLimit = 1) scrolls horizontally when the summed width exceeds the  *)
(* client width; a wrapping box (lineLimit > 1) breaks between any two     *)
(* characters and is capped at lineLimit lines by max-height.              *)
(***************************************************************************)
EXTENDS Integers, Sequences, FiniteSets, TLC

VARIABLES
    originalText,    \* option originalText handed to truncateOnResize
    ellipsisSymbol,  \* option ellipsisSymbol
    lineLimit,       \* option lineLimit
    clientWidth,     \* targetElement.clientWidth under the current layout
    availableWidth,  \* value getAvailableWidth / getAvailableWidthWhenSharing returns
    textContent,     \* targetElement's rendered text
    activation,      \* "idle" before truncateOnResize, then "active" or "noop"
    observing,       \* the ResizeObserver has an observation target
    resizeTimeout,   \* closure variable resizeTimeout: a timer id, or 0 for null
    timers,          \* pending setTimeout callbacks: id -> ms left
    nextId,          \* next timer id setTimeout hands out
    sinceNotify,     \* ms since the last resize notification (capped at Delay)
    burst,           \* resize notifications delivered since the last pipeline run
    disposeCalls,    \* number of calls of the returned disposer
    runs,            \* number of pipeline runs of the activation
    lastRun,         \* record of the last direct pipeline run (engine history)
    options,         \* the option values the caller passes to truncateOnResize
    observeTarget,   \* the element handed to observer.observe, "none" before
    deferral,        \* "deferred" after a run that returned at clientWidth === 0,
                     \* "retried" after the run that follows such a run and gets
                     \* past that check, else "none"
    fontWidthMap,    \* string-utils: the font width table, family -> character -> width
    measureCache,    \* string-utils: cache key -> live-measured width
    canvasContext,   \* string-utils: a 2d canvas context exists (browser)
    liveMeasurements,\* number of canvas measureText calls per (character, family, size)
    lastWidth,       \* the last getCharacterWidth request and the width it returned
    budgetCall,      \* the last width budget an engine computed, with its inputs
    document,        \* the DOM the target element of a width request is in
    widthCall,       \* the last element-utils call: elements, value returned
    component,       \* the fields of a TextTruncate element and its page environment
    element,         \* the fields of a MiddleEllipsis element and its page environment
    greedyCall,      \* the last run of the greedy two-pointer engine, pass by pass
    markupCall,      \* the last setHtmlContent call: its strings, the DOM it left
    pipeline         \* one run of truncateText, loop iteration by loop iteration

cfgVars   == <<originalText, ellipsisSymbol, lineLimit>>
envVars   == <<clientWidth, availableWidth>>
coordVars == <<activation, observing, resizeTimeout, timers, nextId,
               sinceNotify, burst, disposeCalls, runs, observeTarget, deferral>>
vars      == <<originalText, ellipsisSymbol, lineLimit, clientWidth,
               availableWidth, textContent, activation, observing,
               resizeTimeout, timers, nextId, sinceNotify, burst,
               disposeCalls, runs, lastRun, options, observeTarget, deferral,
               fontWidthMap, measureCache, canvasContext, liveMeasurements,
               lastWidth, budgetCall, document, widthCall, component,
               element, greedyCall, markupCall, pipeline>>
cacheVars == <<fontWidthMap, measureCache, canvasContext, liveMeasurements,
               lastWidth>>
pageVars  == <<budgetCall, document, widthCall, component, element,
               greedyCall, markupCall, pipeline>>

----------------------------------------------------------------------------
(* Bounds *)

MaxLen == 4
MaxWidth == 6
MaxNotify == 3
MaxDisposeCalls == 2
MaxDepth == 4
MaxSubscriptions == 2
MaxFrames == 2
MaxMarkupLen == 2

(* Program constants *)

Delay == 10
MultilineBuffer == 20
SafetyBuffer == 2

\* resizeTimeout is null (0, falsy) or a timer id (a positive integer, truthy).
Truthy(handle) == handle # 0
NoRun ==
    [ran |-> FALSE, cw |-> 0, avail |-> 0, rendered |-> <<>>,
     result |-> [firstHalf |-> <<>>, secondHalf |-> <<>>, ellipsisSymbol |-> <<>>,
                 truncated |-> FALSE, textContent |-> <<>>, probes |-> 0,
                 searched |-> 0, attempts |-> <<>>],
     repeated |-> FALSE]

Chars == {"a", "W"}

CharWidth(c) == IF c = "W" THEN 3 ELSE 1

RECURSIVE SeqsUpTo(_)
SeqsUpTo(n) ==
    IF n = 0 THEN {<<>>}
    ELSE LET S == SeqsUpTo(n - 1)
         IN S \cup {Append(s, c) : s \in {t \in S : Len(t) = n - 1}, c \in Chars}

Texts == SeqsUpTo(MaxLen)
Ellipses == {<<>>, <<".">>, <<".", ".", ".">>}
LineLimits == {1, 2}
Widths == 0..MaxWidth
AvailWidths == {0, 8, 24}
InitialContents == {<<>>, <<"W", "W", "W">>}
CoordTexts == {<<>>, <<"a", "a", "W", "a">>}
CoordEllipses == {<<".">>}
CoordWidths == {0, 3, MaxWidth}

Max(a, b) == IF a >= b THEN a ELSE b
Min(a, b) == IF a <= b THEN a ELSE b

----------------------------------------------------------------------------
(* JavaScript string primitives (0-based indices) *)

Slice(s, from, to) == SubSeq(s, from + 1, to)
SliceFrom(s, from) == SubSeq(s, from + 1, Len(s))
CharAt(s, i) == <<s[i + 1]>>

----------------------------------------------------------------------------
(* Layout of the target element *)

RECURSIVE TextWidth(_)
TextWidth(s) == IF s = <<>> THEN 0 ELSE CharWidth(Head(s)) + TextWidth(Tail(s))

RECURSIVE WidestChar(_)
WidestChar(s) == IF s = <<>> THEN 0 ELSE Max(CharWidth(Head(s)), WidestChar(Tail(s)))

RECURSIVE LineBreaks(_, _, _)
LineBreaks(s, cw, used) ==
    IF s = <<>> THEN 0
    ELSE IF used + CharWidth(Head(s)) <= cw
         THEN LineBreaks(Tail(s), cw, used + CharWidth(Head(s)))
         ELSE 1 + LineBreaks(Tail(s), cw, CharWidth(Head(s)))

WrapLines(s, cw) ==
    IF s = <<>> THEN 0 ELSE 1 + LineBreaks(Tail(s), cw, CharWidth(Head(s)))

ScrollWidth(s, cw, ll) ==
    IF ll > 1 THEN Max(cw, WidestChar(s)) ELSE Max(cw, TextWidth(s))

ScrollHeight(s, cw, ll) ==
    IF ll > 1 THEN WrapLines(s, cw) ELSE IF s = <<>> THEN 0 ELSE 1

ClientHeight(s, cw, ll) ==
    IF ll > 1 THEN Min(ScrollHeight(s, cw, ll), ll) ELSE ScrollHeight(s, cw, ll)

checkOverflowStrict(s, cw, ll) ==
    \/ ScrollWidth(s, cw, ll) >= cw
    \/ (ll > 1 /\ ScrollHeight(s, cw, ll) >= ClientHeight(s, cw, ll))

checkOverflow(s, cw, ll) ==
    \/ ScrollWidth(s, cw, ll) > cw
    \/ (ll > 1 /\ ScrollHeight(s, cw, ll) > ClientHeight(s, cw, ll))

----------------------------------------------------------------------------
(* truncateText: the binary-search engine *)

Untruncated(text) ==
    [firstHalf |-> text, secondHalf |-> <<>>, ellipsisSymbol |-> <<>>,
     truncated |-> FALSE, textContent |-> text, probes |-> 0,
     searched |-> 0, attempts |-> <<>>]

AdjustedWidthNoReserve(avail, ll) == avail * ll

AdjustedWidth(avail, ll) ==
    IF ll > 1 THEN avail * ll - MultilineBuffer ELSE avail

BudgetExhaustedStrict(budget) == budget < 0

BudgetExhausted(budget) == budget <= 0

NotLaidOutNever(cw) == FALSE

NotLaidOut(cw) == cw = 0

FastPathContentStale(text, before) == before

FastPathContent(text, before) == text

SearchRightShort(n) == (n \div 2) - 1

SearchRight(n) == n \div 2

\* req = [text, ell, ll, cw]; st = [first, second, content, probes].
\* (Each loop iteration binds its next state with a one-element set, so that
\* the state is evaluated once per iteration.)
RECURSIVE BinarySearch(_, _, _, _)
BinarySearch(req, left, right, st) ==
    IF left > right THEN st
    ELSE LET n == Len(req.text)
             mid == (left + right) \div 2
             firstHalf == Slice(req.text, 0, mid)
             secondHalf == SliceFrom(req.text, n - mid)
             testResult == firstHalf \o req.ell \o secondHalf
             next ==
                 IF checkOverflow(testResult, req.cw, req.ll)
                 THEN [left |-> left, right |-> mid - 1,
                       st |-> [st EXCEPT !.content = testResult, !.probes = @ + 1]]
                 ELSE [left |-> mid + 1, right |-> right,
                       st |-> [first |-> firstHalf, second |-> secondHalf,
                               content |-> testResult, probes |-> st.probes + 1]]
         IN CHOOSE r \in {BinarySearch(req, x.left, x.right, x.st) : x \in {next}} : TRUE

FineTuneLastIndexOff(n, bestSecondHalf) == n - Len(bestSecondHalf)

FineTuneLastIndex(n, bestSecondHalf) == n - Len(bestSecondHalf) - 1

FineTuneEndAlternating(req, st) ==
    IF \/ ~(st.lastIndex >= 0 /\ st.lastIndex < Len(req.text))
       \/ /\ st.attempts # <<>>
          /\ st.attempts[Len(st.attempts)].end = "suffix"
          /\ st.attempts[Len(st.attempts)].accepted
    THEN st
    ELSE LET testSecond == CharAt(req.text, st.lastIndex) \o st.second
             probe == st.first \o req.ell \o testSecond
         IN IF ~checkOverflow(probe, req.cw, req.ll)
            THEN [st EXCEPT !.second = testSecond, !.lastIndex = @ - 1,
                            !.added = TRUE,
                            !.content = probe, !.probes = @ + 1,
                            !.attempts = Append(@, [end |-> "suffix",
                                                    accepted |-> TRUE,
                                                    probe |-> probe])]
            ELSE [st EXCEPT !.content = probe, !.probes = @ + 1,
                            !.attempts = Append(@, [end |-> "suffix",
                                                    accepted |-> FALSE,
                                                    probe |-> probe])]

\* "Try adding from the end first": st after the attempt, added set if it fit.
FineTuneEnd(req, st) ==
    IF ~(st.lastIndex >= 0 /\ st.lastIndex < Len(req.text)) THEN st
    ELSE LET testSecond == CharAt(req.text, st.lastIndex) \o st.second
             probe == st.first \o req.ell \o testSecond
         IN IF ~checkOverflow(probe, req.cw, req.ll)
            THEN [st EXCEPT !.second = testSecond, !.lastIndex = @ - 1,
                            !.added = TRUE,
                            !.content = probe, !.probes = @ + 1,
                            !.attempts = Append(@, [end |-> "suffix",
                                                    accepted |-> TRUE,
                                                    probe |-> probe])]
            ELSE [st EXCEPT !.content = probe, !.probes = @ + 1,
                            !.attempts = Append(@, [end |-> "suffix",
                                                    accepted |-> FALSE,
                                                    probe |-> probe])]

FineTuneStartNever(req, st) == st

\* "Try adding from the start", when nothing was added from the end.
FineTuneStart(req, st) ==
    IF ~(~st.added /\ st.firstIndex < Len(req.text)) THEN st
    ELSE LET testFirst == st.first \o CharAt(req.text, st.firstIndex)
             probe == testFirst \o req.ell \o st.second
         IN IF ~checkOverflow(probe, req.cw, req.ll)
            THEN [st EXCEPT !.first = testFirst, !.firstIndex = @ + 1,
                            !.added = TRUE,
                            !.content = probe, !.probes = @ + 1,
                            !.attempts = Append(@, [end |-> "prefix",
                                                    accepted |-> TRUE,
                                                    probe |-> probe])]
            ELSE [st EXCEPT !.content = probe, !.probes = @ + 1,
                            !.attempts = Append(@, [end |-> "prefix",
                                                    accepted |-> FALSE,
                                                    probe |-> probe])]

\* st = [first, second, firstIndex, lastIndex, canAddMore, added, content,
\*       probes, searched, attempts]: searched is the length the binary search
\* settled on, attempts the growth attempts of the pass in their order.
RECURSIVE FineTuneFrontFirst(_, _)
FineTuneFrontFirst(req, st) ==
    IF ~(st.canAddMore /\ st.firstIndex <= st.lastIndex) THEN st
    ELSE CHOOSE r \in
             {FineTuneFrontFirst(req, [z EXCEPT !.canAddMore = z.added]) :
                 z \in {IF y.added THEN y ELSE FineTuneEnd(req, y) :
                     y \in {FineTuneStart(req, [st EXCEPT !.added = FALSE])}}} : TRUE

RECURSIVE FineTune(_, _)
FineTune(req, st) ==
    IF ~(st.canAddMore /\ st.firstIndex <= st.lastIndex) THEN st
    ELSE CHOOSE r \in
             {FineTune(req, [z EXCEPT !.canAddMore = z.added]) :
                 z \in {FineTuneStart(req, y) :
                     y \in {FineTuneEnd(req, [st EXCEPT !.added = FALSE])}}} : TRUE

\* The search and the fine-tune pass, from the overflowing original text.
Search(req, shown) ==
    LET n == Len(req.text)
        fineTuned(bs) ==
            FineTune(req,
                [first |-> bs.first, second |-> bs.second,
                 firstIndex |-> Len(bs.first),
                 lastIndex |-> FineTuneLastIndex(n, bs.second),
                 canAddMore |-> TRUE, added |-> FALSE,
                 content |-> bs.first \o req.ell \o bs.second,
                 probes |-> bs.probes,
                 searched |-> Len(bs.first), attempts |-> <<>>])
        returned(ft) ==
            [firstHalf |-> ft.first, secondHalf |-> ft.second,
             ellipsisSymbol |-> req.ell, truncated |-> TRUE,
             textContent |-> ft.content, probes |-> ft.probes,
             searched |-> ft.searched, attempts |-> ft.attempts]
    IN CHOOSE r \in
           {returned(ft) :
               ft \in {fineTuned(bs) :
                   bs \in {BinarySearch(req, 0, SearchRight(n),
                               [first |-> <<>>, second |-> <<>>,
                                content |-> shown, probes |-> 0])}}} : TRUE

truncateText(text, ell, ll, avail, cw, before) ==
    IF BudgetExhausted(AdjustedWidth(avail, ll)) THEN Untruncated(text)
    ELSE LET shown == FastPathContent(text, before)
         IN IF NotLaidOut(cw)
            THEN [Untruncated(text) EXCEPT !.textContent = shown]
            ELSE IF ~checkOverflow(shown, cw, ll)
                 THEN [Untruncated(text) EXCEPT !.textContent = shown]
                 ELSE Search([text |-> text, ell |-> ell, ll |-> ll, cw |-> cw], shown)

\* The template of setHtmlContent and the entities of escapeHtml, as
\* character sequences ("CR", "LF" and "NUL" stand for the control
\* characters U+000D, U+000A and U+0000).
SpanOpen ==
    <<"<", "s", "p", "a", "n", " ", "p", "a", "r", "t", "=", "\"",
      "e", "l", "l", "i", "p", "s", "i", "s", "\"", ">">>
SpanClose == <<"<", "/", "s", "p", "a", "n", ">">>
AmpEntity == <<"&", "a", "m", "p", ";">>
LtEntity == <<"&", "l", "t", ";">>
GtEntity == <<"&", "g", "t", ";">>
QuotEntity == <<"&", "q", "u", "o", "t", ";">>
Letters == {"a", "e", "g", "i", "l", "m", "n", "o", "p", "q", "r", "s", "t", "u"}

\* text.replace(/c/g, entity)
RECURSIVE ReplaceAll(_, _, _)
ReplaceAll(text, c, entity) ==
    CHOOSE r \in
        {IF t = <<>> THEN <<>>
         ELSE (IF Head(t) = c THEN entity ELSE <<Head(t)>>)
                  \o ReplaceAll(Tail(t), c, entity) : t \in {text}} : TRUE

escapeHtmlAmpLast(text) ==
    ReplaceAll(ReplaceAll(ReplaceAll(ReplaceAll(text, "<", LtEntity),
        ">", GtEntity), "\"", QuotEntity), "&", AmpEntity)

\* escapeHtml: & first, then <, > and the double quote
escapeHtml(text) ==
    ReplaceAll(ReplaceAll(ReplaceAll(ReplaceAll(text, "&", AmpEntity),
        "<", LtEntity), ">", GtEntity), "\"", QuotEntity)

\* The string setHtmlContent assigns to element.innerHTML
innerHTML(first, ellipsis, second) ==
    escapeHtml(first) \o SpanOpen \o escapeHtml(ellipsis) \o SpanClose
        \o escapeHtml(second)

\* The HTML fragment parser of the browser on that string, for a target
\* with ordinary content model: the character reference state decodes
\* &amp; &lt; &gt; &quot; (with or without the semicolon), "<" followed by a
\* letter opens a start tag and "</" an end tag, both up to the next ">",
\* any other "<" is text, the input stream preprocessor turns CR and CR LF
\* into LF, and the tree builder drops NUL.
\* dom = [textContent, spans, elements, inSpan]: spans holds the text of
\* every span with part="ellipsis", elements counts every element created.
NextGt(html, i) ==
    IF \E j \in i..Len(html) : html[j] = ">"
    THEN CHOOSE j \in i..Len(html) :
             html[j] = ">" /\ \A k \in i..(j - 1) : html[k] # ">"
    ELSE 0

StartsWith(html, i, name) ==
    /\ i + Len(name) - 1 <= Len(html)
    /\ SubSeq(html, i, i + Len(name) - 1) = name

EntityNames ==
    { [name |-> <<"&", "a", "m", "p">>, char |-> "&"],
      [name |-> <<"&", "l", "t">>, char |-> "<"],
      [name |-> <<"&", "g", "t">>, char |-> ">"],
      [name |-> <<"&", "q", "u", "o", "t">>, char |-> "\""] }

EmitCharacter(dom, c) ==
    [dom EXCEPT !.textContent = Append(@, c),
                !.spans = IF dom.inSpan
                          THEN [@ EXCEPT ![Len(@)] = Append(@, c)]
                          ELSE @]

\* (Each step binds the next position and tree with a one-element set, so
\* that they are evaluated once per step.)
RECURSIVE ParseFrom(_, _, _)
ParseFrom(html, i, dom) ==
    IF i > Len(html) THEN dom
    ELSE LET end == Len(html) + 1
             next ==
                 IF html[i] = "<" /\ i < Len(html) /\ html[i + 1] \in Letters
                 THEN IF NextGt(html, i) = 0 THEN [i |-> end, dom |-> dom]
                      ELSE [i |-> NextGt(html, i) + 1,
                            dom |->
                               IF SubSeq(html, i, NextGt(html, i)) = SpanOpen
                               THEN [dom EXCEPT !.spans = Append(@, <<>>),
                                                !.elements = @ + 1,
                                                !.inSpan = TRUE]
                               ELSE [dom EXCEPT !.elements = @ + 1]]
                 ELSE IF html[i] = "<" /\ i < Len(html) /\ html[i + 1] = "/"
                 THEN IF NextGt(html, i) = 0 THEN [i |-> end, dom |-> dom]
                      ELSE [i |-> NextGt(html, i) + 1,
                            dom |->
                               IF SubSeq(html, i, NextGt(html, i)) = SpanClose
                               THEN [dom EXCEPT !.inSpan = FALSE]
                               ELSE dom]
                 ELSE IF /\ html[i] = "&"
                         /\ \E e \in EntityNames : StartsWith(html, i, e.name)
                 THEN LET e == CHOOSE x \in EntityNames :
                                   StartsWith(html, i, x.name)
                          after == i + Len(e.name)
                      IN [i |-> IF after <= Len(html) /\ html[after] = ";"
                                THEN after + 1 ELSE after,
                          dom |-> EmitCharacter(dom, e.char)]
                 ELSE IF html[i] = "CR"
                 THEN [i |-> IF i < Len(html) /\ html[i + 1] = "LF"
                             THEN i + 2 ELSE i + 1,
                       dom |-> EmitCharacter(dom, "LF")]
                 ELSE IF html[i] = "NUL" THEN [i |-> i + 1, dom |-> dom]
                 ELSE [i |-> i + 1, dom |-> EmitCharacter(dom, html[i])]
         IN CHOOSE r \in {ParseFrom(html, x.i, x.dom) : x \in {next}} : TRUE

EmptyDom == [textContent |-> <<>>, spans |-> <<>>, elements |-> 0, inSpan |-> FALSE]

ParseFragment(html) ==
    CHOOSE r \in {ParseFrom(h, 1, EmptyDom) : h \in {html}} : TRUE

NoMarkupCall ==
    [asked |-> FALSE, first |-> <<>>, ellipsis |-> <<>>, second |-> <<>>,
     dom |-> EmptyDom]

\* setHtmlContent: element.innerHTML = escaped first + <span part="ellipsis">
\* escaped ellipsis </span> + escaped second; the text the target then holds.
setHtmlContent(first, ellipsis, second) ==
    ParseFragment(innerHTML(first, ellipsis, second)).textContent

\* runTruncate: the result of truncateText on layout (w, a) and the rendered
\* text it leaves in the target.
runTruncateResult(w, a, before) ==
    truncateText(originalText, ellipsisSymbol, lineLimit, a, w, before)

runTruncateContentProbe(result) == result.textContent

runTruncateContent(result) ==
    IF result.truncated
    THEN setHtmlContent(result.firstHalf, result.ellipsisSymbol, result.secondHalf)
    ELSE result.firstHalf

runTruncateRendered(w, a, before) ==
    CHOOSE c \in {runTruncateContent(r) : r \in {runTruncateResult(w, a, before)}} : TRUE

----------------------------------------------------------------------------
(* Timers of the event loop *)

SetTimeout(t, id) ==
    [i \in (DOMAIN t) \cup {id} |-> IF i = id THEN Delay ELSE t[i]]

ClearTimeout(t, id) == [i \in (DOMAIN t) \ {id} |-> t[i]]

NoTimers == [i \in {} |-> 0]

----------------------------------------------------------------------------
(* The option values of a truncateOnResize call, as the caller supplies them *)

\* A JavaScript value: its typeof, and its string or number value.
Undefined == [type |-> "undefined", str |-> <<>>, num |-> 0]
Null      == [type |-> "object", str |-> <<>>, num |-> 0]
Str(s)    == [type |-> "string", str |-> s, num |-> 0]
Num(n)    == [type |-> "number", str |-> <<>>, num |-> n]

\* A destructuring default replaces undefined, and nothing else.
DefaultParam(raw, default) == IF raw.type = "undefined" THEN default ELSE raw

\* !value
Falsy(raw) ==
    CASE raw.type = "string" -> raw.str = <<>>
      [] raw.type = "number" -> raw.num = 0
      [] OTHER -> TRUE

\* String(value) of a string value.
StringOf(raw) == raw.str

ThreeDots == <<".", ".", ".">>

\* The one-character string of the horizontal ellipsis, U+2026.
HorizontalEllipsis == <<"U+2026">>

originalTextParam(opts) == DefaultParam(opts.originalText, Str(<<>>))

HasOriginalTextAlways(opts) == TRUE

HasOriginalText(opts) == ~Falsy(originalTextParam(opts))

originalTextArg(opts) == StringOf(originalTextParam(opts))

ellipsisSymbolArg(opts) ==
    LET param == DefaultParam(opts.ellipsisSymbol, Str(ThreeDots))
    IN IF param.type = "string" THEN param.str ELSE ThreeDots

lineLimitArg(opts) ==
    LET param == DefaultParam(opts.lineLimit, Num(1))
    IN IF param.type = "number" THEN param.num ELSE 1

ObserveTargetHostFirst(opts) ==
    IF opts.targetElement.shadowRoot THEN "host"
    ELSE IF opts.boundingElement THEN "boundingElement"
    ELSE IF opts.targetElement.offsetParent THEN "offsetParent"
    ELSE "targetElement"

\* boundingElement: one was supplied; targetElement.shadowRoot: its root node
\* is a ShadowRoot; targetElement.offsetParent: its offsetParent is not null.
ObserveTarget(opts) ==
    IF opts.boundingElement THEN "boundingElement"
    ELSE IF opts.targetElement.shadowRoot THEN "host"
    ELSE IF opts.targetElement.offsetParent THEN "offsetParent"
    ELSE "targetElement"

\* A call with a string text and ellipsis and a numeric line limit, no
\* bounding element, on a light-DOM target that has an offset parent.
TypedOptions(text, ell, ll) ==
    [originalText |-> Str(text), ellipsisSymbol |-> Str(ell), lineLimit |-> Num(ll),
     boundingElement |-> FALSE,
     targetElement |-> [shadowRoot |-> FALSE, offsetParent |-> TRUE]]

RawTexts == {Undefined, Str(<<>>), Str(<<"a", "a", "W", "a">>)}
RawEllipses == {Undefined, Null, Num(7), Str(<<".">>)}
RawLineLimits == {Undefined, Null, Str(<<"2">>), Num(0), Num(1), Num(2)}
TargetElements == [shadowRoot : BOOLEAN, offsetParent : BOOLEAN]
CallerOptions ==
    [originalText : RawTexts, ellipsisSymbol : RawEllipses, lineLimit : RawLineLimits,
     boundingElement : BOOLEAN, targetElement : TargetElements]
ActivationWidths == {0, 4}

----------------------------------------------------------------------------
(* string-utils: character widths, the font width table, the measure cache *)
(* Widths are in tenths of a pixel.                                         *)

MaxMeasurements == 3

CacheChars == {"a", "|"}
FontFamilies == {<<"F">>, <<"G">>}
FontSizes == {8, 16}
LiveWidths == {50, 70}
Triples == CacheChars \X FontFamilies \X FontSizes

defaultFontWidthMap == [f \in {<<"F">>} |-> [c \in {"a"} |-> 80]]
customFontWidthMap == [f \in {<<"G">>} |-> [c \in {"|"} |-> 160]]
FontWidthMaps == {defaultFontWidthMap, customFontWidthMap}

Digits == <<"0", "1", "2", "3", "4", "5", "6", "7", "8", "9">>

\* String conversion of a non-negative integer in a template literal.
RECURSIVE NumberText(_)
NumberText(n) ==
    IF n < 10 THEN <<Digits[n + 1]>>
    ELSE NumberText(n \div 10) \o <<Digits[(n % 10) + 1]>>

cacheKeyNoSize(character, fontFamily, fontSize) ==
    <<character>> \o <<"|">> \o fontFamily

\* `${character}|${fontFamily}|${fontSize}`
cacheKey(character, fontFamily, fontSize) ==
    <<character>> \o <<"|">> \o fontFamily \o <<"|">> \o NumberText(fontSize)

\* characterWidthMap && characterWidthMap[character] !== undefined
InTable(map, character, fontFamily) ==
    /\ fontFamily \in DOMAIN map
    /\ character \in DOMAIN map[fontFamily]

\* characterWidthMap[character] * (fontSize / 16)
ScaledWidth(map, character, fontFamily, fontSize) ==
    (map[fontFamily][character] * fontSize) \div 16

\* fontSize * 0.6
RoughWidth(fontSize) == fontSize * 6

CacheSetNone(cache, key, width) == cache

\* measureCache.set(cacheKey, width)
CacheSet(cache, key, width) ==
    [k \in (DOMAIN cache) \cup {key} |-> IF k = key THEN width ELSE cache[k]]

EmptyCache == [k \in {} |-> 0]

NoWidth ==
    [asked |-> FALSE, character |-> "a", fontFamily |-> <<>>, fontSize |-> 0,
     width |-> 0, source |-> "none", tick |-> 0]

NoMeasurements == [t \in Triples |-> 0]

RECURSIVE SumOver(_, _)
SumOver(count, S) ==
    IF S = {} THEN 0
    ELSE LET t == CHOOSE x \in S : TRUE
         IN count[t] + SumOver(count, S \ {t})

\* Number of canvas measureText calls so far.
TotalMeasurements(count) == SumOver(count, DOMAIN count)

CacheIdle ==
    /\ fontWidthMap = defaultFontWidthMap
    /\ measureCache = EmptyCache
    /\ canvasContext = TRUE
    /\ liveMeasurements = NoMeasurements
    /\ lastWidth = NoWidth

----------------------------------------------------------------------------
(* No call of element-utils yet, no component on the page *)

NoBudgetCall ==
    [asked |-> FALSE, engine |-> "none", availableWidth |-> 0, lineLimit |-> 1,
     wWidth |-> 0, adjusted |-> 0, budget |-> 0]

NoWidthCall ==
    [fn |-> "none", targetElement |-> 0, boundingElement |-> 0, num |-> 0,
     den |-> 1]

\* No run of the greedy two-pointer engine yet.
NoHalves == [firstHalf |-> <<>>, secondHalf |-> <<>>, firstIndex |-> 0, lastIndex |-> 0]

NoGreedyCall ==
    [asked |-> FALSE, cw |-> 0, availableWidth |-> 0, table |-> "none",
     truncated |-> FALSE, greedy |-> NoHalves, shrunk |-> NoHalves,
     grown |-> NoHalves, admitted |-> <<>>, removed |-> 0, attempts |-> <<>>,
     result |-> <<>>]

\* No run of truncateText followed loop by loop yet.
NoSearch == [first |-> <<>>, second |-> <<>>, content |-> <<>>, probes |-> 0]

NoFineTune ==
    [first |-> <<>>, second |-> <<>>, firstIndex |-> 0, lastIndex |-> 0,
     canAddMore |-> FALSE, added |-> FALSE, content |-> <<>>, probes |-> 0,
     searched |-> 0, attempts |-> <<>>]

NoPipeline ==
    [pc |-> "idle", boundingElement |-> 0, walkOf |-> 0,
     offsetParentElement |-> 0, shadow |-> FALSE, tempElement |-> 0,
     takenWidth |-> 0, containerAvailableWidth |-> 0, num |-> 0, den |-> 1,
     walkSteps |-> 0, walkEnd |-> "none", walkStop |-> 0, jumped |-> FALSE,
     sharingSteps |-> 0, sharingEnd |-> "none", sharingStop |-> 0,
     left |-> 0, right |-> 0, searchSteps |-> 0, rounds |-> 0,
     bs |-> NoSearch, ft |-> NoFineTune, result |-> NoRun.result]

\* A target element that is the only element of its document.
NoDocument ==
    [depth |-> 1, shadowAt |-> 0, positionedAt |-> 0,
     boxes |-> <<[width |-> 0, padding |-> 0, border |-> 0, margin |-> 0]>>,
     siblings |-> << <<>> >>]

NoComponent == [state |-> "none"]

NoElement == [state |-> "none"]

PageIdle ==
    /\ budgetCall = NoBudgetCall
    /\ document = NoDocument
    /\ widthCall = NoWidthCall
    /\ greedyCall = NoGreedyCall
    /\ markupCall = NoMarkupCall
    /\ pipeline = NoPipeline
    /\ component = NoComponent
    /\ element = NoElement

----------------------------------------------------------------------------
(* truncateOnResize: the resize coordinator *)

\* No call of truncateOnResize yet.
CoordIdle ==
    /\ activation = "idle"
    /\ observing = FALSE
    /\ observeTarget = "none"
    /\ resizeTimeout = 0
    /\ timers = NoTimers
    /\ nextId = 1
    /\ sinceNotify = Delay
    /\ burst = 0
    /\ disposeCalls = 0
    /\ runs = 0
    /\ deferral = "none"
    /\ lastRun = NoRun

InitWith(texts, ellipses, contents) ==
    /\ originalText \in texts
    /\ ellipsisSymbol \in ellipses
    /\ lineLimit \in LineLimits
    /\ options = TypedOptions(originalText, ellipsisSymbol, lineLimit)
    /\ clientWidth = 0
    /\ availableWidth = 0
    /\ textContent \in contents
    /\ CoordIdle
    /\ CacheIdle
    /\ PageIdle

Init == InitWith(CoordTexts, CoordEllipses, {<<>>})

\* The run returns at the clientWidth === 0 check.
Deferred(ll, w, a) == ~BudgetExhausted(AdjustedWidth(a, ll)) /\ NotLaidOut(w)

\* runTruncate(): one pass of the pipeline on the current layout, with the
\* arguments it derives from the options of the call.
runTruncate ==
    \E text \in {originalTextArg(options)},
       ell \in {ellipsisSymbolArg(options)},
       ll \in {lineLimitArg(options)} :
       /\ originalText' = text
       /\ ellipsisSymbol' = ell
       /\ lineLimit' = ll
       /\ textContent' =
              CHOOSE c \in {runTruncateContent(r) :
                               r \in {truncateText(text, ell, ll, availableWidth,
                                                   clientWidth, textContent)}} : TRUE
       /\ runs' = runs + 1
       /\ burst' = 0
       /\ deferral' = IF Deferred(ll, clientWidth, availableWidth) THEN "deferred"
                      ELSE IF deferral = "deferred" THEN "retried" ELSE "none"

initialRunSkipped == UNCHANGED <<cfgVars, textContent, runs, burst, deferral>>

\* "Run once immediately".
initialRun == runTruncate

\* truncateOnResize({...}): no-op for an empty text, else one synchronous run
\* and a ResizeObserver on the observe target.
TruncateOnResize ==
    /\ activation = "idle"
    /\ IF ~HasOriginalText(options)
       THEN /\ activation' = "noop"
            /\ UNCHANGED <<cfgVars, textContent, runs, burst, deferral, observing,
                           observeTarget>>
       ELSE /\ activation' = "active"
            /\ initialRun
            /\ observing' = TRUE
            /\ observeTarget' = ObserveTarget(options)
    /\ UNCHANGED <<envVars, resizeTimeout, timers, nextId, sinceNotify,
                   disposeCalls, lastRun, options, cacheVars, pageVars>>

debouncedTruncateNoClear ==
    /\ timers' = SetTimeout(timers, nextId)
    /\ resizeTimeout' = nextId
    /\ nextId' = nextId + 1

debouncedTruncateNoRearm ==
    /\ timers' = IF Truthy(resizeTimeout)
                 THEN ClearTimeout(timers, resizeTimeout)
                 ELSE SetTimeout(timers, nextId)
    /\ resizeTimeout' = nextId
    /\ nextId' = nextId + 1

debouncedTruncate ==
    /\ timers' = SetTimeout(IF Truthy(resizeTimeout)
                            THEN ClearTimeout(timers, resizeTimeout)
                            ELSE timers,
                            nextId)
    /\ resizeTimeout' = nextId
    /\ nextId' = nextId + 1

\* The ResizeObserver callback: a size change of the observed element.
ResizeNotify ==
    /\ observing
    /\ nextId <= MaxNotify
    /\ debouncedTruncate
    /\ sinceNotify' = 0
    /\ burst' = burst + 1
    /\ UNCHANGED <<cfgVars, envVars, textContent, activation, observing,
                   disposeCalls, runs, lastRun, options, observeTarget, deferral,
                   cacheVars, pageVars>>

\* One millisecond passes.
Tick ==
    /\ timers' = [i \in DOMAIN timers |-> Max(0, timers[i] - 1)]
    /\ sinceNotify' = Min(Delay, sinceNotify + 1)
    /\ UNCHANGED <<cfgVars, envVars, textContent, activation, observing,
                   resizeTimeout, nextId, burst, disposeCalls, runs, lastRun,
                   options, observeTarget, deferral, cacheVars, pageVars>>

\* The setTimeout callback of debouncedTruncate.
TimerFire(id) ==
    /\ id \in DOMAIN timers
    /\ timers[id] = 0
    /\ timers' = ClearTimeout(timers, id)
    /\ runTruncate
    /\ resizeTimeout' = 0
    /\ UNCHANGED <<envVars, activation, observing, nextId, sinceNotify,
                   disposeCalls, lastRun, options, observeTarget, cacheVars, pageVars>>

disposerNoClear ==
    /\ observing' = FALSE
    /\ UNCHANGED <<cfgVars, timers, textContent, runs, burst, deferral>>

disposerFlush ==
    /\ observing' = FALSE
    /\ IF Truthy(resizeTimeout)
       THEN /\ timers' = ClearTimeout(timers, resizeTimeout)
            /\ runTruncate
       ELSE UNCHANGED <<cfgVars, timers, textContent, runs, burst, deferral>>

disposer ==
    /\ observing' = FALSE
    /\ timers' = IF Truthy(resizeTimeout)
                 THEN ClearTimeout(timers, resizeTimeout)
                 ELSE timers
    /\ UNCHANGED <<cfgVars, textContent, runs, burst, deferral>>

\* A call of the function truncateOnResize returned.
Dispose ==
    /\ activation # "idle"
    /\ disposeCalls < MaxDisposeCalls
    /\ disposeCalls' = disposeCalls + 1
    /\ IF activation = "noop"
       THEN UNCHANGED <<cfgVars, observing, timers, textContent, runs, burst,
                        deferral>>
       ELSE disposer
    /\ UNCHANGED <<envVars, activation, resizeTimeout, nextId,
                   sinceNotify, lastRun, options, observeTarget, cacheVars, pageVars>>

\* The layout changes: new client width of the target, new available width.
SetGeometry(w, a) ==
    /\ <<w, a>> # <<clientWidth, availableWidth>>
    /\ clientWidth' = w
    /\ availableWidth' = a
    /\ UNCHANGED <<cfgVars, textContent, coordVars, lastRun, options, cacheVars, pageVars>>

Next ==
    \/ TruncateOnResize
    \/ ResizeNotify
    \/ Tick
    \/ \E id \in DOMAIN timers : TimerFire(id)
    \/ Dispose
    \/ \E w \in CoordWidths, a \in AvailWidths : SetGeometry(w, a)

Spec == Init /\ [][Next]_vars

\* The event loop runs a due timer callback, and time passes.
LiveSpec ==
    /\ Init
    /\ [][Next]_vars
    /\ WF_vars(Tick)
    /\ WF_vars(\E id \in DOMAIN timers : TimerFire(id))

----------------------------------------------------------------------------
(* The pipeline applied directly, layout after layout *)

EngineInit == InitWith(Texts \ {<<>>}, Ellipses, InitialContents)

\* The layout becomes (w, a) and runTruncate() runs on it.
Refit(w, a) ==
    \E result \in {runTruncateResult(w, a, textContent)} :
       /\ clientWidth' = w
       /\ availableWidth' = a
       /\ textContent' = runTruncateContent(result)
       /\ lastRun' = [ran |-> TRUE, cw |-> w, avail |-> a,
                      rendered |-> runTruncateContent(result), result |-> result,
                      repeated |-> lastRun.ran /\ lastRun.cw = w /\ lastRun.avail = a]
       /\ UNCHANGED <<cfgVars, coordVars, options, cacheVars, pageVars>>

EngineNext == \E w \in Widths, a \in AvailWidths : Refit(w, a)

EngineSpec == EngineInit /\ [][EngineNext]_vars

----------------------------------------------------------------------------
(* Calls of truncateOnResize with any option values, on any placement of   *)
(* the target in the document                                              *)

OptionsInit ==
    /\ options \in CallerOptions
    /\ originalText = <<>>
    /\ ellipsisSymbol = <<>>
    /\ lineLimit = 1
    /\ clientWidth \in ActivationWidths
    /\ availableWidth \in AvailWidths
    /\ textContent \in InitialContents
    /\ CoordIdle
    /\ CacheIdle
    /\ PageIdle

OptionsNext ==
    \/ TruncateOnResize
    \/ Dispose

OptionsSpec == OptionsInit /\ [][OptionsNext]_vars

----------------------------------------------------------------------------
(* Width requests to string-utils *)

CacheInit ==
    /\ originalText = <<>>
    /\ ellipsisSymbol = <<>>
    /\ lineLimit = 1
    /\ options = TypedOptions(originalText, ellipsisSymbol, lineLimit)
    /\ clientWidth = 0
    /\ availableWidth = 0
    /\ textContent = <<>>
    /\ CoordIdle
    /\ fontWidthMap = defaultFontWidthMap
    /\ measureCache = EmptyCache
    /\ canvasContext \in BOOLEAN
    /\ liveMeasurements = NoMeasurements
    /\ lastWidth = NoWidth
    /\ PageIdle

\* getCharacterWidth(character, fontFamily, fontSize), with the call of
\* measureCharacterWidth it makes for a character the table does not hold.
GetCharacterWidth(character, fontFamily, fontSize) ==
    LET key == cacheKey(character, fontFamily, fontSize)
        triple == <<character, fontFamily, fontSize>>
        answer(width, source) ==
            [asked |-> TRUE, character |-> character, fontFamily |-> fontFamily,
             fontSize |-> fontSize, width |-> width, source |-> source,
             tick |-> 1 - lastWidth.tick]
    IN /\ IF InTable(fontWidthMap, character, fontFamily)
          THEN /\ lastWidth' = answer(ScaledWidth(fontWidthMap, character,
                                                  fontFamily, fontSize), "table")
               /\ UNCHANGED <<measureCache, liveMeasurements>>
          ELSE IF key \in DOMAIN measureCache
          THEN /\ lastWidth' = answer(measureCache[key], "cache")
               /\ UNCHANGED <<measureCache, liveMeasurements>>
          ELSE IF ~canvasContext
          THEN /\ lastWidth' = answer(RoughWidth(fontSize), "rough")
               /\ UNCHANGED <<measureCache, liveMeasurements>>
          ELSE /\ TotalMeasurements(liveMeasurements) < MaxMeasurements
               /\ \E width \in LiveWidths :
                     /\ measureCache' = CacheSet(measureCache, key, width)
                     /\ lastWidth' = answer(width, "live")
               /\ liveMeasurements' =
                      [liveMeasurements EXCEPT ![triple] = @ + 1]
       /\ UNCHANGED <<cfgVars, envVars, textContent, coordVars, lastRun, options,
                      fontWidthMap, canvasContext, pageVars>>

InstalledMapMerged(current, customMap) ==
    [f \in (DOMAIN current) \cup (DOMAIN customMap) |->
        IF f \in DOMAIN customMap THEN customMap[f] ELSE current[f]]

\* fontWidthMap = customMap
InstalledMap(current, customMap) == customMap

\* setFontWidthMap(customMap)
SetFontWidthMap(customMap) ==
    /\ fontWidthMap' = InstalledMap(fontWidthMap, customMap)
    /\ UNCHANGED <<cfgVars, envVars, textContent, coordVars, lastRun, options,
                   measureCache, canvasContext, liveMeasurements, lastWidth,
                   pageVars>>

CacheNext ==
    \/ \E character \in CacheChars, fontFamily \in FontFamilies,
          fontSize \in FontSizes :
          GetCharacterWidth(character, fontFamily, fontSize)
    \/ \E customMap \in FontWidthMaps : SetFontWidthMap(customMap)

CacheSpec == CacheInit /\ [][CacheNext]_vars

----------------------------------------------------------------------------
(* element-utils: the width budget of a target element, and the budget     *)
(* step of the engines.  A document is the chain of elements from the      *)
(* target (index 1) up to the topmost element (index depth); the element   *)
(* at index shadowAt, if any, is a child of a shadow root whose host is    *)
(* the next element of the chain.                                          *)

programVars == <<cfgVars, envVars, textContent, coordVars, lastRun, options,
                 cacheVars>>

ProgramIdle ==
    /\ originalText = <<>>
    /\ ellipsisSymbol = <<>>
    /\ lineLimit = 1
    /\ options = TypedOptions(originalText, ellipsisSymbol, lineLimit)
    /\ clientWidth = 0
    /\ availableWidth = 0
    /\ textContent = <<>>
    /\ CoordIdle
    /\ CacheIdle

\* Computed styles getElementProperties reads.
PlainBox == [width |-> 40, padding |-> 0, border |-> 0, margin |-> 0]
FramedBox == [width |-> 30, padding |-> 2, border |-> 1, margin |-> 3]
Boxes == {PlainBox, FramedBox}

\* The other children of an element's parent: numeric is FALSE for a
\* computed width that parses to NaN ("auto").
SlotChild == [tagName |-> "SLOT", numeric |-> TRUE, width |-> 5, margin |-> 0]
InlineChild == [tagName |-> "SPAN", numeric |-> FALSE, width |-> 0, margin |-> 0]
BlockChild == [tagName |-> "DIV", numeric |-> TRUE, width |-> 7, margin |-> 1]
SiblingLists == {<<>>, <<SlotChild, InlineChild, BlockChild>>}

Depths == 2..MaxDepth

Documents ==
    UNION {[depth : {d}, shadowAt : 0..(d - 1), positionedAt : 0..d,
            boxes : [1..d -> Boxes], siblings : [1..d -> SiblingLists]] :
           d \in Depths}

\* getElementProperties(el).innerWidth
innerWidth(box) == box.width - box.padding - box.border

\* getElementProperties(child).totalWidth
totalWidth(child) == child.width + child.margin

\* el.getRootNode() instanceof ShadowRoot
isShadowDOM(doc, el) == el <= doc.shadowAt

parentElementStay(doc, el) ==
    IF el = doc.shadowAt \/ el = doc.depth THEN 0 ELSE el

\* el.parentElement, 0 for null: a child of the shadow root and the topmost
\* element have none.
parentElement(doc, el) ==
    IF el = doc.shadowAt \/ el = doc.depth THEN 0 ELSE el + 1

\* rootNode.host.parentElement, 0 for null
hostParentElement(doc) ==
    IF doc.shadowAt + 2 <= doc.depth THEN doc.shadowAt + 2 ELSE 0

\* el.offsetParent of a light-DOM element: its nearest positioned ancestor
offsetParent(doc, el) ==
    IF doc.positionedAt > el THEN doc.positionedAt ELSE 0

RECURSIVE OtherChildrenWidth(_, _)
OtherChildrenWidth(children, i) ==
    IF i > Len(children) THEN 0
    ELSE (IF children[i].tagName = "SLOT" THEN 0
          ELSE IF children[i].numeric THEN totalWidth(children[i])
          ELSE 0) + OtherChildrenWidth(children, i + 1)

getSiblingWidthOthersOnly(doc, el) ==
    OtherChildrenWidth(doc.siblings[el], 1)

\* getSiblingWidth(el): the element's own padding and border plus the total
\* width of the other children of its parent node
getSiblingWidth(doc, el) ==
    doc.boxes[el].padding + doc.boxes[el].border
        + OtherChildrenWidth(doc.siblings[el], 1)

\* The loop of getAvailableWidth, from tempElement with takenWidth so far.
RECURSIVE TakenWidth(_, _, _, _, _)
TakenWidth(doc, tempElement, offsetParentElement, shadow, takenWidth) ==
    IF tempElement = offsetParentElement THEN takenWidth
    ELSE LET taken == takenWidth + getSiblingWidth(doc, tempElement)
         IN IF parentElement(doc, tempElement) = 0
            THEN IF /\ shadow
                    /\ tempElement = doc.shadowAt
                    /\ hostParentElement(doc) # 0
                 THEN TakenWidth(doc, hostParentElement(doc),
                                 offsetParentElement, shadow, taken)
                 ELSE taken
            ELSE TakenWidth(doc, parentElement(doc, tempElement),
                            offsetParentElement, shadow, taken)

\* getAvailableWidth(targetElement)
getAvailableWidth(doc, targetElement) ==
    LET shadow == isShadowDOM(doc, targetElement)
        offsetParentElement ==
            IF shadow THEN hostParentElement(doc)
            ELSE offsetParent(doc, targetElement)
    IN IF offsetParentElement = 0 THEN 0
       ELSE innerWidth(doc.boxes[offsetParentElement])
               - TakenWidth(doc, targetElement, offsetParentElement, shadow, 0)

\* paddingXWidth + borderXWidth + marginXWidth of an element
BoxEdges(box) == box.padding + box.border + box.margin

\* The loop of getAvailableWidthWhenSharing.
RECURSIVE SharingTakenWidth(_, _, _, _)
SharingTakenWidth(doc, tempElement, boundingElement, takenWidth) ==
    IF tempElement = boundingElement THEN takenWidth
    ELSE LET taken == takenWidth + BoxEdges(doc.boxes[tempElement])
         IN IF parentElement(doc, tempElement) = 0 THEN taken
            ELSE SharingTakenWidth(doc, parentElement(doc, tempElement),
                                   boundingElement, taken)

\* boundingElement.childElementCount, for an element whose child on the
\* chain is in the same tree
childElementCount(doc, boundingElement) ==
    1 + Len(doc.siblings[boundingElement - 1])

\* getAvailableWidthWhenSharing(targetElement, boundingElement): the value
\* returned, as the fraction num / den.
getAvailableWidthWhenSharing(doc, targetElement, boundingElement) ==
    LET shadow == isShadowDOM(doc, targetElement)
        sameShadowRoot ==
            isShadowDOM(doc, targetElement) = isShadowDOM(doc, boundingElement)
        isHostElement == shadow /\ boundingElement = doc.shadowAt + 1
    IN IF (shadow /\ sameShadowRoot) \/ isHostElement
       THEN [num |-> innerWidth(doc.boxes[boundingElement])
                        - BoxEdges(doc.boxes[targetElement]),
             den |-> 1]
       ELSE LET count == childElementCount(doc, boundingElement)
            IN [num |-> getAvailableWidth(doc, boundingElement)
                           - count * SharingTakenWidth(doc, targetElement,
                                                       boundingElement, 0),
                den |-> count]

GetAvailableWidth ==
    /\ widthCall' = [fn |-> "getAvailableWidth", targetElement |-> 1,
                     boundingElement |-> 0,
                     num |-> getAvailableWidth(document, 1), den |-> 1]
    /\ UNCHANGED <<programVars, budgetCall, document, component, element,
                   greedyCall, markupCall, pipeline>>

GetAvailableWidthWhenSharing(boundingElement) ==
    /\ boundingElement <= document.depth
    /\ widthCall' =
          [fn |-> "getAvailableWidthWhenSharing", targetElement |-> 1,
           boundingElement |-> boundingElement,
           num |-> getAvailableWidthWhenSharing(document, 1, boundingElement).num,
           den |-> getAvailableWidthWhenSharing(document, 1, boundingElement).den]
    /\ UNCHANGED <<programVars, budgetCall, document, component, element,
                   greedyCall, markupCall, pipeline>>

\* Values getCharacterWidth("W", fontFamily, fontSize) returns
WWidths == {4, 12, 20}

BudgetLineLimits == {1, 2, 3}

Engines == {"binarySearch", "widthSum"}

\* The width-summing engines: availableWidth * lineLimit - width of "W"
WidthSumAdjustedWidth(avail, ll, wWidth) ==
    IF ll > 1 THEN avail * ll - wWidth ELSE avail

\* The budget step of truncateText, in either engine.
truncateTextBudget(engine, avail, ll, wWidth) ==
    /\ \E adjusted \in {IF engine = "widthSum"
                         THEN WidthSumAdjustedWidth(avail, ll, wWidth)
                         ELSE AdjustedWidth(avail, ll)} :
          budgetCall' =
              [asked |-> TRUE, engine |-> engine, availableWidth |-> avail,
               lineLimit |-> ll, wWidth |-> wWidth, adjusted |-> adjusted,
               budget |-> IF engine = "widthSum" THEN adjusted - SafetyBuffer
                          ELSE adjusted]
    /\ UNCHANGED <<programVars, document, widthCall, component, element,
                   greedyCall, markupCall, pipeline>>

LayoutInit ==
    /\ ProgramIdle
    /\ budgetCall = NoBudgetCall
    /\ document \in Documents
    /\ widthCall = NoWidthCall
    /\ greedyCall = NoGreedyCall
    /\ markupCall = NoMarkupCall
    /\ pipeline = NoPipeline
    /\ component = NoComponent
    /\ element = NoElement

LayoutNext ==
    \/ GetAvailableWidth
    \/ \E boundingElement \in 2..MaxDepth :
          GetAvailableWidthWhenSharing(boundingElement)

LayoutSpec == LayoutInit /\ [][LayoutNext]_vars

BudgetInit ==
    /\ ProgramIdle
    /\ PageIdle

BudgetNext ==
    \E engine \in Engines, avail \in Widths, ll \in BudgetLineLimits,
       wWidth \in WWidths : truncateTextBudget(engine, avail, ll, wWidth)

BudgetSpec == BudgetInit /\ [][BudgetNext]_vars

----------------------------------------------------------------------------
(* The greedy two-pointer engine (part_003): a greedy pass over the widths  *)
(* the width table gives, then a pass that shrinks the halves while the     *)
(* rendered result overflows, then a pass that adds characters back while   *)
(* the rendered result fits.  The width table may agree with the renderer   *)
(* or give every glyph a narrower or a wider advance than it renders with.  *)

WidthTables == {"exact", "narrow", "wide"}

\* getCharacterWidth(c, fontFamily, fontSize) under a width table
TableWidth(table, c) ==
    IF table = "exact" THEN CharWidth(c) ELSE IF table = "narrow" THEN 1 ELSE 3

RECURSIVE getStringWidth(_, _)
getStringWidth(s, table) ==
    IF s = <<>> THEN 0 ELSE TableWidth(table, Head(s)) + getStringWidth(Tail(s), table)

GreedyAvailWidths == {0, MaxWidth, MaxWidth + 3, 2 * MaxWidth + 2}

\* targetElement.scrollWidth > targetElement.clientWidth
scrollOverflow(s, cw, ll) == ScrollWidth(s, cw, ll) > cw

\* req = [text, ell, ll, cw, table];
\* st = [remainingWidth, firstHalf, secondHalf, firstIndex, lastIndex, admitted]
RECURSIVE greedyPass(_, _)
greedyPass(req, st) ==
    IF ~(st.firstIndex <= st.lastIndex) THEN st
    ELSE LET firstCharWidth == TableWidth(req.table, req.text[st.firstIndex + 1])
             lastCharWidth == TableWidth(req.table, req.text[st.lastIndex + 1])
         IN IF st.remainingWidth >= firstCharWidth + lastCharWidth
            THEN CHOOSE r \in {greedyPass(req, x) : x \in
                    {[remainingWidth |-> st.remainingWidth - firstCharWidth
                                            - lastCharWidth,
                      firstHalf |-> st.firstHalf \o CharAt(req.text, st.firstIndex),
                      secondHalf |-> CharAt(req.text, st.lastIndex) \o st.secondHalf,
                      firstIndex |-> st.firstIndex + 1,
                      lastIndex |-> st.lastIndex - 1,
                      admitted |-> Append(st.admitted, "both")]}} : TRUE
            ELSE IF st.remainingWidth >= firstCharWidth
            THEN CHOOSE r \in {greedyPass(req, x) : x \in
                    {[st EXCEPT !.remainingWidth = @ - firstCharWidth,
                                !.firstHalf = @ \o CharAt(req.text, st.firstIndex),
                                !.firstIndex = @ + 1,
                                !.admitted = Append(@, "front")]}} : TRUE
            ELSE IF st.remainingWidth >= lastCharWidth
            THEN CHOOSE r \in {greedyPass(req, x) : x \in
                    {[st EXCEPT !.remainingWidth = @ - lastCharWidth,
                                !.secondHalf = CharAt(req.text, st.lastIndex) \o @,
                                !.lastIndex = @ - 1,
                                !.admitted = Append(@, "back")]}} : TRUE
            ELSE st

\* "Fine-tune: if text overflows, remove characters until it fits"
\* st = [firstHalf, secondHalf, removed]
RECURSIVE shrinkPass(_, _)
shrinkPass(req, st) ==
    IF ~(/\ scrollOverflow(st.firstHalf \o req.ell \o st.secondHalf, req.cw, req.ll)
         /\ (Len(st.firstHalf) > 0 \/ Len(st.secondHalf) > 0))
    THEN st
    ELSE CHOOSE r \in {shrinkPass(req, x) : x \in
            {IF Len(st.firstHalf) >= Len(st.secondHalf) /\ Len(st.firstHalf) > 0
             THEN [st EXCEPT !.firstHalf = SubSeq(@, 1, Len(@) - 1),
                             !.removed = @ + 1]
             ELSE IF Len(st.secondHalf) > 0
             THEN [st EXCEPT !.secondHalf = Tail(@), !.removed = @ + 1]
             ELSE [st EXCEPT !.removed = @ + 1]}} : TRUE

\* "Try adding from the end first (to complete the sentence)"
growBackEnd(req, st) ==
    IF ~(st.lastIndex >= 0) THEN st
    ELSE LET testLastChar == CharAt(req.text, st.lastIndex)
             testResult == st.firstHalf \o req.ell \o testLastChar \o st.secondHalf
         IN IF ~scrollOverflow(testResult, req.cw, req.ll)
            THEN [st EXCEPT !.secondHalf = testLastChar \o @,
                            !.lastIndex = @ - 1,
                            !.added = TRUE,
                            !.attempts = Append(@, [end |-> "suffix",
                                                    accepted |-> TRUE,
                                                    probe |-> testResult])]
            ELSE [st EXCEPT !.attempts = Append(@, [end |-> "suffix",
                                                    accepted |-> FALSE,
                                                    probe |-> testResult])]

\* "If we couldn't add from end, try from start"
growBackStart(req, st) ==
    IF ~(~st.added /\ st.firstIndex < Len(req.text)) THEN st
    ELSE LET testFirstChar == CharAt(req.text, st.firstIndex)
             testResult == st.firstHalf \o testFirstChar \o req.ell \o st.secondHalf
         IN IF ~scrollOverflow(testResult, req.cw, req.ll)
            THEN [st EXCEPT !.firstHalf = @ \o testFirstChar,
                            !.firstIndex = @ + 1,
                            !.added = TRUE,
                            !.attempts = Append(@, [end |-> "prefix",
                                                    accepted |-> TRUE,
                                                    probe |-> testResult])]
            ELSE [st EXCEPT !.attempts = Append(@, [end |-> "prefix",
                                                    accepted |-> FALSE,
                                                    probe |-> testResult])]

\* "Optimize: try adding characters back if there's space"
\* st = [firstHalf, secondHalf, firstIndex, lastIndex, canAddMore, added, attempts]
RECURSIVE growBackPass(_, _)
growBackPass(req, st) ==
    IF ~(st.canAddMore /\ st.firstIndex <= st.lastIndex) THEN st
    ELSE CHOOSE r \in
             {growBackPass(req, [z EXCEPT !.canAddMore = z.added]) :
                 z \in {growBackStart(req, y) :
                     y \in {growBackEnd(req, [st EXCEPT !.added = FALSE])}}} : TRUE

Halves(st) ==
    [firstHalf |-> st.firstHalf, secondHalf |-> st.secondHalf,
     firstIndex |-> st.firstIndex, lastIndex |-> st.lastIndex]

\* truncateText of part_003 on the layout (cw, availableWidth), pass by pass
greedyTruncateText(text, ell, ll, avail, cw, table) ==
    LET req == [text |-> text, ell |-> ell, ll |-> ll, cw |-> cw, table |-> table]
        budget == WidthSumAdjustedWidth(avail, ll, TableWidth(table, "W"))
                      - SafetyBuffer
        call == [NoGreedyCall EXCEPT !.asked = TRUE, !.cw = cw,
                                     !.availableWidth = avail, !.table = table]
        passes(g) ==
            CHOOSE c \in
                {[call EXCEPT
                     !.truncated = TRUE,
                     !.greedy = Halves(g),
                     !.admitted = g.admitted,
                     !.shrunk = [Halves(g) EXCEPT !.firstHalf = x.s.firstHalf,
                                                  !.secondHalf = x.s.secondHalf],
                     !.removed = x.s.removed,
                     !.grown = Halves(x.b),
                     !.attempts = x.b.attempts,
                     !.result = x.b.firstHalf \o ell \o x.b.secondHalf] :
                 x \in {[s |-> s, b |-> growBackPass(req,
                            [firstHalf |-> s.firstHalf, secondHalf |-> s.secondHalf,
                             firstIndex |-> g.firstIndex, lastIndex |-> g.lastIndex,
                             canAddMore |-> TRUE, added |-> FALSE,
                             attempts |-> <<>>])] :
                        s \in {shrinkPass(req, [firstHalf |-> g.firstHalf,
                                                secondHalf |-> g.secondHalf,
                                                removed |-> 0])}}} : TRUE
    IN IF ~scrollOverflow(text, cw, ll)
       THEN [call EXCEPT !.result = text]
       ELSE CHOOSE c \in
               {passes(g) : g \in
                   {greedyPass(req,
                       [remainingWidth |-> budget - getStringWidth(ell, table),
                        firstHalf |-> <<>>, secondHalf |-> <<>>,
                        firstIndex |-> 0, lastIndex |-> Len(text) - 1,
                        admitted |-> <<>>])}} : TRUE

\* The layout becomes (w, a), the width table is `table`, and runTruncate()
\* of part_003 runs: the target shows the string truncateText returns.
GreedyRefit(w, a, table) ==
    \E call \in {greedyTruncateText(originalText, ellipsisSymbol, lineLimit,
                                    a, w, table)} :
       /\ clientWidth' = w
       /\ availableWidth' = a
       /\ textContent' = call.result
       /\ greedyCall' = call
       /\ UNCHANGED <<cfgVars, coordVars, lastRun, options, cacheVars,
                      budgetCall, document, widthCall, component, element,
                      markupCall, pipeline>>

GreedyInit == InitWith(Texts \ {<<>>}, Ellipses, {<<>>})

GreedyNext ==
    \E w \in Widths, a \in GreedyAvailWidths, table \in WidthTables :
        GreedyRefit(w, a, table)

GreedySpec == GreedyInit /\ [][GreedyNext]_vars

----------------------------------------------------------------------------
(* One run of truncateText (part_008), a step per loop iteration:           *)
(* the ancestor walks of element-utils, the binary search, the fine-tune   *)
(* pass                                                                    *)

PipelineDocuments ==
    {doc \in Documents :
        \A el \in 1..doc.depth :
           doc.boxes[el] = PlainBox /\ doc.siblings[el] = <<>>}
PipelineEllipses == {<<".">>}
PipelineWidths == {0, MaxWidth \div 2}

\* truncateText({boundingElement, targetElement, ...}) is entered: the
\* width request up to its first loop. boundingElement is 0 when not given.
TruncateText(boundingElement) ==
    /\ pipeline.pc = "idle"
    /\ boundingElement = 0 \/ boundingElement \in 2..document.depth
    /\ LET shadow == isShadowDOM(document, 1)
           sameShadowRoot ==
               isShadowDOM(document, 1) = isShadowDOM(document, boundingElement)
           isHostElement == shadow /\ boundingElement = document.shadowAt + 1
           walkOf == IF boundingElement = 0 THEN 1 ELSE boundingElement
           walkShadow == isShadowDOM(document, walkOf)
       IN IF boundingElement # 0 /\ ((shadow /\ sameShadowRoot) \/ isHostElement)
          THEN pipeline' =
                  [pipeline EXCEPT
                      !.pc = "budget", !.boundingElement = boundingElement,
                      !.num = innerWidth(document.boxes[boundingElement])
                                 - BoxEdges(document.boxes[1]),
                      !.den = 1]
          ELSE pipeline' =
                  [pipeline EXCEPT
                      !.pc = "walk", !.boundingElement = boundingElement,
                      !.walkOf = walkOf, !.shadow = walkShadow,
                      !.offsetParentElement =
                          IF walkShadow THEN hostParentElement(document)
                          ELSE offsetParent(document, walkOf),
                      !.tempElement = walkOf, !.takenWidth = 0]
    /\ UNCHANGED <<programVars, budgetCall, document, widthCall, component,
                   element, greedyCall, markupCall>>

\* getAvailableWidth returns width: to the budget of truncateText, or to the
\* loop of getAvailableWidthWhenSharing that called it.
WalkReturns(width, end, stop, steps) ==
    IF pipeline.boundingElement = 0
    THEN [pipeline EXCEPT !.pc = "budget", !.num = width, !.den = 1,
                          !.containerAvailableWidth = width,
                          !.walkEnd = end, !.walkStop = stop,
                          !.walkSteps = steps]
    ELSE [pipeline EXCEPT !.pc = "sharing", !.containerAvailableWidth = width,
                          !.walkEnd = end, !.walkStop = stop,
                          !.walkSteps = steps,
                          !.tempElement = 1, !.takenWidth = 0]

\* getAvailableWidth: the null check, or one test of the while loop and, if
\* it holds, one iteration.
GetAvailableWidthStep ==
    /\ pipeline.pc = "walk"
    /\ pipeline.walkSteps <= MaxDepth
    /\ LET tempElement == pipeline.tempElement
           offsetParentElement == pipeline.offsetParentElement
           taken == pipeline.takenWidth + getSiblingWidth(document, tempElement)
       IN pipeline' =
             IF offsetParentElement = 0
             THEN WalkReturns(0, "detached", tempElement, pipeline.walkSteps)
             ELSE IF tempElement = offsetParentElement
             THEN WalkReturns(innerWidth(document.boxes[offsetParentElement])
                                  - pipeline.takenWidth,
                              "end", tempElement, pipeline.walkSteps)
             ELSE IF parentElement(document, tempElement) = 0
             THEN IF /\ pipeline.shadow
                     /\ tempElement = document.shadowAt
                     /\ hostParentElement(document) # 0
                  THEN [pipeline EXCEPT
                           !.tempElement = hostParentElement(document),
                           !.takenWidth = taken, !.jumped = TRUE,
                           !.walkSteps = @ + 1]
                  ELSE WalkReturns(innerWidth(document.boxes[offsetParentElement])
                                       - taken,
                                   "root", tempElement, pipeline.walkSteps + 1)
             ELSE [pipeline EXCEPT
                      !.tempElement = parentElement(document, tempElement),
                      !.takenWidth = taken, !.walkSteps = @ + 1]
    /\ UNCHANGED <<programVars, budgetCall, document, widthCall, component,
                   element, greedyCall, markupCall>>

\* getAvailableWidthWhenSharing returns, after `steps` iterations of its loop.
SharingReturns(taken, end, stop, steps) ==
    LET count == childElementCount(document, pipeline.boundingElement)
    IN [pipeline EXCEPT
           !.pc = "budget",
           !.num = pipeline.containerAvailableWidth - count * taken,
           !.den = count, !.takenWidth = taken,
           !.sharingEnd = end, !.sharingStop = stop, !.sharingSteps = steps]

\* getAvailableWidthWhenSharing: one test of the while loop and, if it
\* holds, one iteration.
GetAvailableWidthWhenSharingStep ==
    /\ pipeline.pc = "sharing"
    /\ pipeline.sharingSteps <= MaxDepth
    /\ LET tempElement == pipeline.tempElement
           taken == pipeline.takenWidth + BoxEdges(document.boxes[tempElement])
       IN pipeline' =
             IF tempElement = pipeline.boundingElement
             THEN SharingReturns(pipeline.takenWidth, "end", tempElement,
                                 pipeline.sharingSteps)
             ELSE IF parentElement(document, tempElement) = 0
             THEN SharingReturns(taken, "root", tempElement,
                                 pipeline.sharingSteps + 1)
             ELSE [pipeline EXCEPT
                      !.tempElement = parentElement(document, tempElement),
                      !.takenWidth = taken, !.sharingSteps = @ + 1]
    /\ UNCHANGED <<programVars, budgetCall, document, widthCall, component,
                   element, greedyCall, markupCall>>

\* runTruncate on a result truncateText returned.
PipelineReturns(result) ==
    /\ pipeline' = [pipeline EXCEPT !.pc = "done", !.result = result]
    /\ textContent' = runTruncateContent(result)

\* truncateText from the width budget to the start of the binary search
\* (the available width is the fraction num / den, den > 0).
TruncateTextBudget ==
    /\ pipeline.pc = "budget"
    /\ LET adjusted == IF lineLimit > 1
                       THEN pipeline.num * lineLimit
                               - MultilineBuffer * pipeline.den
                       ELSE pipeline.num
       IN IF \/ BudgetExhausted(adjusted)
             \/ NotLaidOut(clientWidth)
             \/ ~checkOverflow(originalText, clientWidth, lineLimit)
          THEN PipelineReturns(Untruncated(originalText))
          ELSE /\ pipeline' =
                     [pipeline EXCEPT
                         !.pc = "search", !.left = 0,
                         !.right = SearchRight(Len(originalText)),
                         !.bs = [first |-> <<>>, second |-> <<>>,
                                 content |-> originalText, probes |-> 0]]
               /\ textContent' = originalText
    /\ UNCHANGED <<cfgVars, envVars, coordVars, lastRun, options, cacheVars,
                   budgetCall, document, widthCall, component, element,
                   greedyCall, markupCall>>

PipelineRequest ==
    [text |-> originalText, ell |-> ellipsisSymbol, ll |-> lineLimit,
     cw |-> clientWidth]

\* The binary search: one test of `left <= right` and, if it holds, one
\* iteration.
BinarySearchStep ==
    /\ pipeline.pc = "search"
    /\ pipeline.searchSteps <= MaxLen
    /\ LET n == Len(originalText)
           bs == pipeline.bs
           mid == (pipeline.left + pipeline.right) \div 2
           firstHalf == Slice(originalText, 0, mid)
           secondHalf == SliceFrom(originalText, n - mid)
           testResult == firstHalf \o ellipsisSymbol \o secondHalf
       IN IF pipeline.left > pipeline.right
          THEN /\ pipeline' =
                     [pipeline EXCEPT
                         !.pc = "fineTune",
                         !.ft = [first |-> bs.first, second |-> bs.second,
                                 firstIndex |-> Len(bs.first),
                                 lastIndex |-> FineTuneLastIndex(n, bs.second),
                                 canAddMore |-> TRUE, added |-> FALSE,
                                 content |-> bs.first \o ellipsisSymbol
                                                \o bs.second,
                                 probes |-> bs.probes,
                                 searched |-> Len(bs.first), attempts |-> <<>>]]
               /\ textContent' = bs.first \o ellipsisSymbol \o bs.second
          ELSE /\ pipeline' =
                     IF checkOverflow(testResult, clientWidth, lineLimit)
                     THEN [pipeline EXCEPT
                              !.right = mid - 1, !.searchSteps = @ + 1,
                              !.bs = [bs EXCEPT !.content = testResult,
                                                !.probes = @ + 1]]
                     ELSE [pipeline EXCEPT
                              !.left = mid + 1, !.searchSteps = @ + 1,
                              !.bs = [first |-> firstHalf, second |-> secondHalf,
                                      content |-> testResult,
                                      probes |-> bs.probes + 1]]
               /\ textContent' = testResult
    /\ UNCHANGED <<cfgVars, envVars, coordVars, lastRun, options, cacheVars,
                   budgetCall, document, widthCall, component, element,
                   greedyCall, markupCall>>

\* The fine-tune pass: one test of `canAddMore && firstIndex <= lastIndex`
\* and, if it holds, one round; the return of truncateText if it does not.
FineTuneStep ==
    /\ pipeline.pc = "fineTune"
    /\ pipeline.rounds <= MaxLen
    /\ LET ft == pipeline.ft
       IN IF ~(ft.canAddMore /\ ft.firstIndex <= ft.lastIndex)
          THEN PipelineReturns(
                  [firstHalf |-> ft.first, secondHalf |-> ft.second,
                   ellipsisSymbol |-> ellipsisSymbol, truncated |-> TRUE,
                   textContent |-> ft.content, probes |-> ft.probes,
                   searched |-> ft.searched, attempts |-> ft.attempts])
          ELSE \E z \in {FineTuneStart(PipelineRequest, y) :
                            y \in {FineTuneEnd(PipelineRequest,
                                               [ft EXCEPT !.added = FALSE])}} :
                  /\ pipeline' = [pipeline EXCEPT
                                     !.ft = [z EXCEPT !.canAddMore = z.added],
                                     !.rounds = @ + 1]
                  /\ textContent' = z.content
    /\ UNCHANGED <<cfgVars, envVars, coordVars, lastRun, options, cacheVars,
                   budgetCall, document, widthCall, component, element,
                   greedyCall, markupCall>>

PipelineInit ==
    /\ originalText \in Texts \ {<<>>}
    /\ ellipsisSymbol \in PipelineEllipses
    /\ lineLimit \in LineLimits
    /\ options = TypedOptions(originalText, ellipsisSymbol, lineLimit)
    /\ clientWidth \in PipelineWidths
    /\ availableWidth = 0
    /\ textContent = <<>>
    /\ CoordIdle
    /\ CacheIdle
    /\ budgetCall = NoBudgetCall
    /\ document \in PipelineDocuments
    /\ widthCall = NoWidthCall
    /\ component = NoComponent
    /\ element = NoElement
    /\ greedyCall = NoGreedyCall
    /\ markupCall = NoMarkupCall
    /\ pipeline = NoPipeline

PipelineNext ==
    \/ \E boundingElement \in {0} \cup 2..MaxDepth : TruncateText(boundingElement)
    \/ GetAvailableWidthStep
    \/ GetAvailableWidthWhenSharingStep
    \/ TruncateTextBudget
    \/ BinarySearchStep
    \/ FineTuneStep

\* A call of truncateText runs to completion: JavaScript runs the function
\* without interleaving, so a step that can be taken is taken.
PipelineSpec ==
    PipelineInit /\ [][PipelineNext]_vars /\ WF_vars(PipelineNext)

----------------------------------------------------------------------------
(* setHtmlContent on any strings: the final render of a truncated result   *)

MarkupChars == {"a", "l", "t", ";", "&", "<", ">", "\"", "CR", "NUL"}
MarkupTexts == UNION {[1..k -> MarkupChars] : k \in 0..MaxMarkupLen}
MarkupEllipses == {<<".", ".", ".">>, <<"&">>, <<"<", "a", ">">>, <<"CR">>}
MarkupSeconds ==
    {<<>>, <<"&", "l", "t", ";">>, <<"<", "a", ">">>, <<"\"", "NUL">>}

\* setHtmlContent(targetElement, first, ellipsis, second)
SetHtmlContent ==
    /\ ~markupCall.asked
    /\ \E dom \in {ParseFragment(innerHTML(markupCall.first, markupCall.ellipsis,
                                          markupCall.second))} :
          /\ markupCall' = [markupCall EXCEPT !.asked = TRUE, !.dom = dom]
          /\ textContent' = setHtmlContent(markupCall.first, markupCall.ellipsis,
                                           markupCall.second)
    /\ UNCHANGED <<cfgVars, envVars, coordVars, lastRun, options, cacheVars,
                   budgetCall, document, widthCall, component, element,
                   greedyCall, pipeline>>

MarkupInit ==
    /\ ProgramIdle
    /\ budgetCall = NoBudgetCall
    /\ document = NoDocument
    /\ widthCall = NoWidthCall
    /\ component = NoComponent
    /\ element = NoElement
    /\ greedyCall = NoGreedyCall
    /\ pipeline = NoPipeline
    /\ \E first \in MarkupTexts, ellipsis \in MarkupEllipses,
          second \in MarkupSeconds :
          markupCall = [NoMarkupCall EXCEPT !.first = first,
                                            !.ellipsis = ellipsis,
                                            !.second = second]

MarkupNext == SetHtmlContent

MarkupSpec == MarkupInit /\ [][MarkupNext]_vars

----------------------------------------------------------------------------
(* The TextTruncate component (TextTruncate.ts): slot handling, deferral    *)
(* until visible, setup and cleanup of truncateOnResize activations, and    *)
(* the callbacks the page delivers to it in any order.  The record          *)
(* `component` holds the fields of one instance together with its page      *)
(* environment: the slotted text, the queue of animation-frame callbacks,   *)
(* and every activation of truncateOnResize made for its content element.   *)

TextA == <<"a", "a", "W", "a">>
TextB == <<"a", "W", "a", "a">>
SlotTexts == {<<>>, TextA, TextB}
UserTooltip == <<"t">>
ComponentWidths == {3, MaxWidth}
Variants == {"middle", "end"}

\* The content element in the shadow tree of its host, the bounding element.
HostDocument ==
    [depth |-> 2, shadowAt |-> 1, positionedAt |-> 0,
     boxes |-> <<PlainBox, PlainBox>>, siblings |-> << <<SlotChild>>, <<>> >>]

\* getAvailableWidthWhenSharing(contentElement, this)
HostAvailableWidth == getAvailableWidthWhenSharing(HostDocument, 1, 2).num

\* The live activations of truncateOnResize: id -> [originalText, timer]
NoSubscriptions == [k \in {} |-> 0]

\* The fields of a new instance (TextTruncate.ts:104-139), not yet connected.
NewTextTruncate(variant, userTooltip, sourceText, inViewport, width) ==
    [state |-> "created",
     connected |-> FALSE, hasUpdated |-> FALSE,
     sourceText |-> sourceText, slotchangePending |-> FALSE,
     mutationPending |-> FALSE,
     inViewport |-> inViewport, clientWidth |-> width,
     variant |-> variant, ellipsisSymbol |-> HorizontalEllipsis, lineLimit |-> 1,
     tooltip |-> IF userTooltip THEN UserTooltip ELSE <<>>,
     tooltipAttribute |-> userTooltip, userTooltip |-> userTooltip,
     changedProperties |-> {},
     contentText |-> <<>>,
     cleanupTruncate |-> 0, slotContent |-> <<>>,
     slotObserver |-> "undefined", intersectionObserver |-> "undefined",
     observersCreated |-> 0,
     hasBeenVisible |-> FALSE, pendingTruncation |-> FALSE,
     subscriptions |-> NoSubscriptions, frames |-> <<>>]

\* targetElement.clientWidth: an element outside the document has no layout.
LaidOutWidth(c) == IF c.connected THEN c.clientWidth ELSE 0

\* One pass of runTruncate of an activation made for originalText: the text
\* it leaves in the content element.
PassContent(c, text) ==
    CHOOSE content \in
        {runTruncateContent(result) :
            result \in {truncateText(text, c.ellipsisSymbol, c.lineLimit,
                                     HostAvailableWidth, LaidOutWidth(c),
                                     c.contentText)}} : TRUE

\* this.tooltip = value (a reactive property: a change requests an update)
SetTooltip(c, value) ==
    IF value = c.tooltip THEN c
    ELSE [c EXCEPT !.tooltip = value,
                   !.changedProperties = @ \cup {"tooltip"}]

\* The disposer truncateOnResize returned for activation k: the observer
\* is disconnected and the timer cleared.
Disposed(subscriptions, k) ==
    [i \in (DOMAIN subscriptions) \ {k} |-> subscriptions[i]]

\* truncateOnResize(options), after its initial run: a new live activation.
Subscribed(subscriptions, k, text) ==
    [i \in (DOMAIN subscriptions) \cup {k} |->
        IF i = k THEN [originalText |-> text, timer |-> FALSE]
        ELSE subscriptions[i]]

\* The id of the next activation.
NextSubscription(subscriptions) ==
    CHOOSE k \in 1..(MaxSubscriptions + 1) :
        /\ k \notin DOMAIN subscriptions
        /\ \A j \in 1..(k - 1) : j \in DOMAIN subscriptions

\* this.cleanupTruncate?.()
CallCleanupTruncate(c) ==
    IF c.cleanupTruncate = 0 THEN c
    ELSE [c EXCEPT !.subscriptions = Disposed(@, c.cleanupTruncate),
                   !.cleanupTruncate = -1]

setupIntersectionObserverAlways(c) ==
    [c EXCEPT !.intersectionObserver = "observing",
              !.observersCreated = Min(@ + 1, 2)]

\* setupIntersectionObserver()
setupIntersectionObserver(c) ==
    IF c.intersectionObserver # "undefined" \/ c.hasBeenVisible THEN c
    ELSE [c EXCEPT !.intersectionObserver = "observing",
                   !.observersCreated = Min(@ + 1, 2)]

\* setupEndTruncation()
setupEndTruncation(c) == [c EXCEPT !.contentText = c.slotContent]

\* setupMiddleTruncation(): truncateOnResize runs once and subscribes; its
\* disposer is stored over the one stored before.
setupMiddleTruncation(c) ==
    [c EXCEPT !.contentText = PassContent(c, c.slotContent),
              !.subscriptions =
                  Subscribed(@, NextSubscription(c.subscriptions), c.slotContent),
              !.cleanupTruncate = NextSubscription(c.subscriptions)]

\* setupTruncation()
setupTruncation(c) ==
    IF ~c.hasUpdated \/ c.slotContent = <<>> THEN c
    ELSE IF ~c.hasBeenVisible
    THEN [setupIntersectionObserver([c EXCEPT !.pendingTruncation = TRUE])
             EXCEPT !.contentText = c.slotContent]
    ELSE IF c.variant = "end"
    THEN setupEndTruncation([c EXCEPT !.pendingTruncation = FALSE])
    ELSE setupMiddleTruncation([c EXCEPT !.pendingTruncation = FALSE])

\* !this.hasAttribute("tooltip") || this.tooltip === ""
TooltipFollows(c) == ~c.tooltipAttribute \/ c.tooltip = <<>>

\* The body shared by handleSlotChange and the MutationObserver callback.
ContentChanged(c, newContent) ==
    IF newContent = c.slotContent THEN c
    ELSE LET d == [c EXCEPT !.slotContent = newContent]
             e == IF TooltipFollows(d) THEN SetTooltip(d, newContent) ELSE d
         IN setupTruncation(CallCleanupTruncate(e))

\* handleSlotChange(e)
handleSlotChange(c) ==
    [ContentChanged(c, c.sourceText)
        EXCEPT !.slotObserver = IF c.sourceText # <<>> THEN "observing"
                                ELSE "disconnected",
               !.slotchangePending = FALSE,
               !.mutationPending = FALSE]

\* The callback of slotObserver
slotObserverCallback(c) ==
    [ContentChanged(c, c.sourceText) EXCEPT !.mutationPending = FALSE]

\* requestAnimationFrame(callback)
RequestFrame(c, callback) == [c EXCEPT !.frames = Append(@, callback)]

\* firstUpdated()
firstUpdated(c) ==
    RequestFrame([c EXCEPT !.hasBeenVisible = @ \/ c.inViewport], "setup")

\* updated(changedProperties)
updated(c, changed) ==
    LET d == IF "variant" \in changed \/ "ellipsisSymbol" \in changed
                   \/ "lineLimit" \in changed
             THEN setupTruncation(CallCleanupTruncate(c))
             ELSE c
    IN IF changed # {} THEN RequestFrame(d, "recheck") ELSE d

\* The frame callback of updated(): the re-check of the slot content
recheckSlot(c) ==
    IF c.sourceText # <<>> /\ c.sourceText # c.slotContent
    THEN setupTruncation(CallCleanupTruncate([c EXCEPT !.slotContent = c.sourceText]))
    ELSE c

\* The callback of the IntersectionObserver, for an intersecting entry
intersectionCallback(c) ==
    LET d == [c EXCEPT !.hasBeenVisible = TRUE,
                       !.intersectionObserver = "undefined"]
    IN IF c.pendingTruncation THEN RequestFrame(d, "setup") ELSE d

\* observer.disconnect() on an observer field that may be undefined
Disconnected(observer) ==
    IF observer = "undefined" THEN "undefined" ELSE "disconnected"

\* disconnectedCallback()
disconnectedCallback(c) ==
    [CallCleanupTruncate(c)
        EXCEPT !.connected = FALSE,
               !.slotObserver = Disconnected(@),
               !.intersectionObserver = Disconnected(@),
               !.mutationPending = FALSE]

componentOnly == <<programVars, budgetCall, document, widthCall, element,
                   greedyCall, markupCall, pipeline>>

\* The first update, later updates, slotchange events and MutationObserver
\* callbacks are microtasks: the browser runs them before it runs the next
\* animation frame, timer, observer task or script of the page.
MicrotasksPending(c) ==
    \/ c.connected /\ ~c.hasUpdated
    \/ c.changedProperties # {}
    \/ c.slotchangePending
    \/ c.mutationPending /\ c.slotObserver = "observing"

\* The element is inserted into the document.
Connect ==
    /\ component.state = "created"
    /\ ~component.connected
    /\ component' = [component EXCEPT !.connected = TRUE]
    /\ UNCHANGED componentOnly

\* The first update of the connected element: render, firstUpdated, then
\* updated with every property that has an initial value; the slot of the
\* rendered template signals its assigned nodes.
FirstUpdate ==
    /\ component.state = "created"
    /\ component.connected
    /\ ~component.hasUpdated
    /\ component' =
          [updated(firstUpdated([component EXCEPT !.hasUpdated = TRUE,
                                                  !.changedProperties = {}]),
                   {"variant", "ellipsisSymbol", "lineLimit", "tooltip"})
              EXCEPT !.slotchangePending = component.sourceText # <<>>,
                     !.tooltipAttribute = TRUE]
    /\ UNCHANGED componentOnly

\* A later update: the tooltip is reflected to its attribute, then updated
\* runs with the properties changed since the last update.
Update ==
    /\ component.state = "created"
    /\ component.hasUpdated
    /\ component.changedProperties # {}
    /\ Len(component.frames) < MaxFrames
    /\ component' =
          updated([component EXCEPT
                       !.changedProperties = {},
                       !.tooltipAttribute =
                           @ \/ "tooltip" \in component.changedProperties],
                  component.changedProperties)
    /\ UNCHANGED componentOnly

\* The page sets the variant property.
SetVariant(variant) ==
    /\ component.state = "created"
    /\ ~MicrotasksPending(component)
    /\ component.hasUpdated
    /\ variant # component.variant
    /\ component' = [component EXCEPT !.variant = variant,
                                       !.changedProperties = @ \cup {"variant"}]
    /\ UNCHANGED componentOnly

\* The page changes the slotted text: it edits the slotted text node in
\* place (the slotObserver is notified if it observes the node, and nobody
\* is otherwise), or it adds, removes or replaces the slotted nodes (the
\* rendered slot fires slotchange).
ChangeText(text, inPlace) ==
    /\ component.state = "created"
    /\ ~MicrotasksPending(component)
    /\ text # component.sourceText
    /\ inPlace => text # <<>> /\ component.sourceText # <<>>
    /\ component' =
          [component EXCEPT
              !.sourceText = text,
              !.slotchangePending = @ \/ (component.hasUpdated /\ ~inPlace),
              !.mutationPending =
                  @ \/ (inPlace /\ component.slotObserver = "observing")]
    /\ UNCHANGED componentOnly

SlotChange ==
    /\ component.state = "created"
    /\ component.slotchangePending
    /\ Cardinality(DOMAIN component.subscriptions) < MaxSubscriptions
    /\ component' = handleSlotChange(component)
    /\ UNCHANGED componentOnly

SlotMutation ==
    /\ component.state = "created"
    /\ component.mutationPending
    /\ component.slotObserver = "observing"
    /\ Cardinality(DOMAIN component.subscriptions) < MaxSubscriptions
    /\ component' = slotObserverCallback(component)
    /\ UNCHANGED componentOnly

\* The next animation frame runs the oldest requested callback.
AnimationFrame ==
    /\ component.state = "created"
    /\ ~MicrotasksPending(component)
    /\ component.frames # <<>>
    /\ Cardinality(DOMAIN component.subscriptions) < MaxSubscriptions
    /\ component' =
          LET c == [component EXCEPT !.frames = Tail(@)]
          IN IF Head(component.frames) = "setup" THEN setupTruncation(c)
             ELSE recheckSlot(c)
    /\ UNCHANGED componentOnly

\* The element scrolls into or out of the viewport; nothing reads its
\* position once hasBeenVisible is set.
Scroll ==
    /\ component.state = "created"
    /\ ~MicrotasksPending(component)
    /\ ~component.hasBeenVisible
    /\ component' = [component EXCEPT !.inViewport = ~@]
    /\ UNCHANGED componentOnly

Intersect ==
    /\ component.state = "created"
    /\ ~MicrotasksPending(component)
    /\ component.intersectionObserver = "observing"
    /\ component.connected
    /\ component.inViewport
    /\ Len(component.frames) < MaxFrames
    /\ component' = intersectionCallback(component)
    /\ UNCHANGED componentOnly

Disconnect ==
    /\ component.state = "created"
    /\ ~MicrotasksPending(component)
    /\ component.connected
    /\ component.hasUpdated
    /\ component' = disconnectedCallback(component)
    /\ UNCHANGED componentOnly

\* The timer of activation k fires: runTruncate with the text of its call.
SubscriptionRun(k) ==
    /\ component.state = "created"
    /\ ~MicrotasksPending(component)
    /\ k \in DOMAIN component.subscriptions
    /\ component.subscriptions[k].timer
    /\ component' =
          [component EXCEPT
              !.subscriptions[k].timer = FALSE,
              !.contentText =
                  PassContent(component, component.subscriptions[k].originalText)]
    /\ UNCHANGED componentOnly

\* The host is resized: the ResizeObserver of every live activation
\* notifies, and debouncedTruncate arms the timer of the activation.
HostResize(width) ==
    /\ component.state = "created"
    /\ ~MicrotasksPending(component)
    /\ component.connected
    /\ width # component.clientWidth
    /\ component' =
          [component EXCEPT
              !.clientWidth = width,
              !.subscriptions =
                  [k \in DOMAIN @ |-> [@[k] EXCEPT !.timer = TRUE]]]
    /\ UNCHANGED componentOnly

ComponentInit ==
    /\ ProgramIdle
    /\ budgetCall = NoBudgetCall
    /\ document = HostDocument
    /\ widthCall = NoWidthCall
    /\ greedyCall = NoGreedyCall
    /\ markupCall = NoMarkupCall
    /\ pipeline = NoPipeline
    /\ element = NoElement
    /\ \E userTooltip \in BOOLEAN, sourceText \in {<<>>, TextA},
          inViewport \in BOOLEAN :
          /\ userTooltip => sourceText = TextA /\ inViewport
          /\ component = NewTextTruncate("middle", userTooltip, sourceText,
                                         inViewport, 3)

ComponentNext ==
    \/ Connect
    \/ FirstUpdate
    \/ Update
    \/ \E variant \in Variants : SetVariant(variant)
    \/ \E text \in SlotTexts, inPlace \in BOOLEAN : ChangeText(text, inPlace)
    \/ SlotChange
    \/ SlotMutation
    \/ AnimationFrame
    \/ Scroll
    \/ Intersect
    \/ Disconnect
    \/ \E k \in 1..MaxSubscriptions : SubscriptionRun(k)
    \/ \E width \in ComponentWidths : HostResize(width)

ComponentSpec == ComponentInit /\ [][ComponentNext]_vars

----------------------------------------------------------------------------
(* The MiddleEllipsis component (part_001) and the class factory           *)
(* createMiddleEllipsis (packages/lit/src/index.ts).  The component renders *)
(* its span into the host itself (no shadow root), so the host's            *)
(* textContent is the slotted text followed by the text of the span.        *)

UndefinedConfig == [defined |-> FALSE, customFontWidthMap |-> defaultFontWidthMap]
CustomConfig == [defined |-> TRUE, customFontWidthMap |-> customFontWidthMap]
Configs == {UndefinedConfig, CustomConfig}

\* The span below its host, the host below a positioned container.
LightDocument ==
    [depth |-> 3, shadowAt |-> 0, positionedAt |-> 3,
     boxes |-> <<PlainBox, PlainBox, PlainBox>>,
     siblings |-> << <<>>, <<>>, <<>> >>]

\* The field initialisers of class MiddleEllipsis, in source order: config
\* is declared without a value, then truncateOnResize is created from
\* this.config as it is at that point.
MiddleEllipsisFields ==
    LET declared ==
            [state |-> "created", ellipsisSymbol |-> ThreeDots, lineLimit |-> 1,
             config |-> UndefinedConfig]
    IN [state |-> declared.state,
        ellipsisSymbol |-> declared.ellipsisSymbol,
        lineLimit |-> declared.lineLimit,
        config |-> declared.config,
        utilsConfig |-> declared.config,
        cleanup |-> 0, hasSpan |-> FALSE, originalText |-> <<>>]

\* new (createMiddleEllipsis(config))(): the constructor of MiddleEllipsis
\* runs first; the field initialiser `config = config` of the subclass
\* ConfiguredMiddleEllipsis, which exists only for a truthy config, runs
\* after it.
createMiddleEllipsis(config, hostText, width) ==
    LET fields == IF config.defined
                  THEN [MiddleEllipsisFields EXCEPT !.config = config]
                  ELSE MiddleEllipsisFields
    IN [state |-> fields.state, classConfig |-> config,
        config |-> fields.config, utilsConfig |-> fields.utilsConfig,
        ellipsisSymbol |-> fields.ellipsisSymbol, lineLimit |-> fields.lineLimit,
        cleanup |-> fields.cleanup, hasSpan |-> fields.hasSpan,
        originalText |-> fields.originalText,
        connected |-> FALSE, hasUpdated |-> FALSE, changedProperties |-> {},
        slotText |-> hostText, spanText |-> <<>>, clientWidth |-> width,
        subscriptions |-> NoSubscriptions]

\* One pass of runTruncate of an activation on the span.
SpanContent(e, sub) ==
    CHOOSE content \in
        {runTruncateContent(result) :
            result \in {truncateText(sub.originalText, sub.ellipsisSymbol,
                                     sub.lineLimit,
                                     getAvailableWidth(LightDocument, 1),
                                     IF e.connected THEN e.clientWidth ELSE 0,
                                     e.spanText)}} : TRUE

\* this.cleanup?.()
CallCleanup(e) ==
    IF e.cleanup <= 0 THEN e
    ELSE [e EXCEPT !.subscriptions = Disposed(@, e.cleanup), !.cleanup = -1]

\* setupTruncation() of MiddleEllipsis: truncateOnResize returns a disposer
\* that does nothing for an empty originalText.
MiddleEllipsisSetupTruncation(e) ==
    LET d == CallCleanup(e)
        k == NextSubscription(d.subscriptions)
        sub == [originalText |-> d.originalText,
                ellipsisSymbol |-> d.ellipsisSymbol,
                lineLimit |-> d.lineLimit, timer |-> FALSE]
    IN IF ~d.hasSpan THEN d
       ELSE IF d.originalText = <<>> THEN [d EXCEPT !.cleanup = -1]
       ELSE [d EXCEPT !.spanText = SpanContent(d, sub),
                      !.subscriptions =
                          [i \in (DOMAIN @) \cup {k} |->
                              IF i = k THEN sub ELSE @[i]],
                      !.cleanup = k]

\* updated(changedProperties) of MiddleEllipsis
MiddleEllipsisUpdated(e, changed) ==
    IF "ellipsisSymbol" \in changed \/ "lineLimit" \in changed
    THEN MiddleEllipsisSetupTruncation(e)
    ELSE e

elementOnly == <<programVars, budgetCall, document, widthCall, component,
                 greedyCall, markupCall, pipeline>>

\* connectedCallback(): originalText = this.textContent?.trim() || ""
ElementConnect ==
    /\ element.state = "created"
    /\ ~element.connected
    /\ Len(element.slotText \o element.spanText) <= 2 * MaxLen
    /\ element' = [element EXCEPT
                       !.connected = TRUE,
                       !.originalText = element.slotText \o element.spanText]
    /\ UNCHANGED elementOnly

\* The first update: render, firstUpdated, then updated with the properties
\* that have an initial value.
ElementFirstUpdate ==
    /\ element.state = "created"
    /\ element.connected
    /\ ~element.hasUpdated
    /\ element' =
          MiddleEllipsisUpdated(
              MiddleEllipsisSetupTruncation(
                  [element EXCEPT !.hasUpdated = TRUE, !.hasSpan = TRUE,
                                  !.changedProperties = {}]),
              {"ellipsisSymbol", "lineLimit"})
    /\ UNCHANGED elementOnly

\* The page sets a property.
ElementSetProperty(name, value) ==
    /\ element.state = "created"
    /\ element.hasUpdated
    /\ element.changedProperties = {}
    /\ \/ /\ name = "ellipsisSymbol"
          /\ value \in {ThreeDots, <<".">>}
          /\ value # element.ellipsisSymbol
          /\ element' = [element EXCEPT !.ellipsisSymbol = value,
                                         !.changedProperties = {name}]
       \/ /\ name = "lineLimit"
          /\ value \in LineLimits
          /\ value # element.lineLimit
          /\ element' = [element EXCEPT !.lineLimit = value,
                                         !.changedProperties = {name}]
    /\ UNCHANGED elementOnly

\* A later update, connected or not.
ElementUpdate ==
    /\ element.state = "created"
    /\ element.hasUpdated
    /\ element.changedProperties # {}
    /\ Cardinality(DOMAIN element.subscriptions) < MaxSubscriptions
    /\ element' = MiddleEllipsisUpdated(
                      [element EXCEPT !.changedProperties = {}],
                      element.changedProperties)
    /\ UNCHANGED elementOnly

\* disconnectedCallback() of MiddleEllipsis
ElementDisconnect ==
    /\ element.state = "created"
    /\ element.connected
    /\ element.hasUpdated
    /\ element.changedProperties = {}
    /\ element' = [CallCleanup(element) EXCEPT !.connected = FALSE]
    /\ UNCHANGED elementOnly

\* The observed element is resized: every live activation arms its timer.
ElementResize(width) ==
    /\ element.state = "created"
    /\ element.connected
    /\ element.changedProperties = {}
    /\ width # element.clientWidth
    /\ element' =
          [element EXCEPT
              !.clientWidth = width,
              !.subscriptions = [k \in DOMAIN @ |-> [@[k] EXCEPT !.timer = TRUE]]]
    /\ UNCHANGED elementOnly

\* The timer of activation k fires.
ElementRun(k) ==
    /\ element.state = "created"
    /\ element.changedProperties = {}
    /\ k \in DOMAIN element.subscriptions
    /\ element.subscriptions[k].timer
    /\ element' =
          [element EXCEPT
              !.subscriptions[k].timer = FALSE,
              !.spanText = SpanContent(element, element.subscriptions[k])]
    /\ UNCHANGED elementOnly

ElementInit ==
    /\ ProgramIdle
    /\ budgetCall = NoBudgetCall
    /\ document = LightDocument
    /\ widthCall = NoWidthCall
    /\ greedyCall = NoGreedyCall
    /\ markupCall = NoMarkupCall
    /\ pipeline = NoPipeline
    /\ component = NoComponent
    /\ \E config \in Configs, hostText \in {<<>>, TextA},
          width \in ComponentWidths :
          element = createMiddleEllipsis(config, hostText, width)

ElementNext ==
    \/ ElementConnect
    \/ ElementFirstUpdate
    \/ \E value \in {ThreeDots, <<".">>} : ElementSetProperty("ellipsisSymbol", value)
    \/ \E value \in LineLimits : ElementSetProperty("lineLimit", value)
    \/ ElementUpdate
    \/ ElementDisconnect
    \/ \E width \in ComponentWidths : ElementResize(width)
    \/ \E k \in 1..MaxSubscriptions : ElementRun(k)

ElementSpec == ElementInit /\ [][ElementNext]_vars

----------------------------------------------------------------------------
(* Properties of the resize coordinator (Spec, LiveSpec) *)

\* C1: once the disposer has been called, the subscription is disconnected,
\* no debounce timer is pending, and no further pipeline run happens or
\* writes to the target: a notification received before the disposal whose
\* delay had not elapsed never runs the pipeline.
C1_NoRunAfterDispose ==
    [][ /\ disposeCalls' > 0 => (timers' = NoTimers /\ ~observing')
        /\ disposeCalls > 0 => (runs' = runs /\ textContent' = textContent)
      ]_vars

\* Disposed while the last notification's delay had not elapsed.
C1_Witness ==
    /\ activation = "active"
    /\ disposeCalls > 0
    /\ Truthy(resizeTimeout)
    /\ burst > 0
    /\ sinceNotify < Delay

\* C2: at most one debounce timer is pending at any time, and a re-run of
\* the pipeline happens only when the delay has elapsed since the last
\* notification; it serves all notifications of the burst and leaves no
\* timer behind, so a burst causes one re-run, after its last notification.
C2_DebounceCoalesces ==
    [][ /\ Cardinality(DOMAIN timers') <= 1
        /\ (runs > 0 /\ runs' > runs) =>
              /\ sinceNotify = Delay
              /\ burst > 0
              /\ burst' = 0
              /\ timers' = NoTimers
      ]_vars

\* Two notifications were served by a single re-run.
C2_Witness ==
    /\ nextId = 3
    /\ runs = 2
    /\ burst = 0
    /\ timers = NoTimers
    /\ disposeCalls = 0

\* C3: a resize notification delivered to an activation is eventually
\* followed by a re-run of the pipeline, unless the activation is disposed.
C3_NotificationLeadsToRerun ==
    (burst > 0 /\ disposeCalls = 0) ~> (burst = 0 \/ disposeCalls > 0)

\* A notification was delivered and a re-run has followed it.
C3_Witness ==
    /\ runs >= 2
    /\ burst = 0
    /\ disposeCalls = 0

\* C4: a second or later call of the disposer changes nothing: not the
\* target, the subscription, the timers, the timer handle or the run count.
C4_DisposerIdempotent ==
    [][ (disposeCalls >= 1 /\ disposeCalls' > disposeCalls) =>
            UNCHANGED <<textContent, activation, observing, resizeTimeout,
                        timers, nextId, runs, burst>>
      ]_vars

\* The disposer was called twice, the first time with a timer pending (the
\* closure still holds the cleared timer's handle).
C4_Witness ==
    /\ activation = "active"
    /\ disposeCalls >= 2
    /\ Truthy(resizeTimeout)

----------------------------------------------------------------------------
(* Properties of the engine (EngineSpec) *)

IsPrefix(p, s) == Len(p) <= Len(s) /\ SubSeq(s, 1, Len(p)) = p
IsSuffix(p, s) == Len(p) <= Len(s) /\ SubSeq(s, Len(s) - Len(p) + 1, Len(s)) = p

Fits(s, cw, ll) ==
    /\ ScrollWidth(s, cw, ll) <= cw
    /\ (ll > 1 => ScrollHeight(s, cw, ll) <= ClientHeight(s, cw, ll))

CombinedLength(run) == Len(run.result.firstHalf) + Len(run.result.secondHalf)

Searched(run) == run.ran /\ AdjustedWidth(run.avail, lineLimit) > 0 /\ run.cw > 0

\* C5: for every truncated result, prefix + ellipsisSymbol + suffix does not
\* overflow the target.
C5_TruncatedResultFits ==
    (lastRun.ran /\ lastRun.result.truncated) =>
        Fits(lastRun.result.firstHalf \o lastRun.result.ellipsisSymbol
                 \o lastRun.result.secondHalf,
             lastRun.cw, lineLimit)

C7_Monotonic ==
    [][ ( /\ Searched(lastRun)
          /\ Searched(lastRun')
          /\ lastRun.avail <= lastRun'.avail
          /\ lastRun.cw <= lastRun'.cw ) =>
            CombinedLength(lastRun) <= CombinedLength(lastRun')
      ]_vars

\* C8: a run on the geometry of the run before it leaves the same rendered
\* text and the same result, and the rendered text of a run is the one a run
\* from any other previous content of the target gives.
C8_Idempotent ==
    [][ lastRun'.ran =>
          /\ (lastRun.ran /\ lastRun'.repeated) =>
                /\ textContent' = textContent
                /\ lastRun'.result = lastRun.result
          /\ \A c \in InitialContents \cup {originalText} :
                runTruncateRendered(clientWidth', availableWidth', c) = textContent'
      ]_vars

\* Two successive runs on one geometry, with a truncated result.
C8_Witness ==
    /\ lastRun.ran
    /\ lastRun.repeated
    /\ lastRun.result.truncated

C10_FastPath ==
    (lastRun.ran /\ Fits(originalText, lastRun.cw, lineLimit)) =>
        /\ ~lastRun.result.truncated
        /\ lastRun.result.firstHalf = originalText
        /\ lastRun.result.secondHalf = <<>>
        /\ lastRun.result.probes = 0
        /\ lastRun.rendered = originalText
        /\ textContent = originalText

\* The text fits the laid-out target only because it wraps onto the second line.
C10_Witness ==
    /\ Searched(lastRun)
    /\ lineLimit > 1
    /\ TextWidth(originalText) > lastRun.cw
    /\ Fits(originalText, lastRun.cw, lineLimit)
    /\ ~lastRun.result.truncated

----------------------------------------------------------------------------
(* Properties of the activation and of a single run *)

\* The rendered text a run on the current layout gives.
FittedResult == runTruncateRendered(clientWidth, availableWidth, textContent)

\* C11: truncateOnResize runs the pipeline once, synchronously: the step that
\* activates a non-empty text leaves the target holding the result of the
\* pipeline on the current layout, with no notification delivered and no
\* timer created before it, and an active activation has always run.
C11_InitialRunSynchronous ==
    [][ /\ (activation = "idle" /\ activation' = "active") =>
              /\ runs' = 1
              /\ textContent' = FittedResult
              /\ burst' = 0
              /\ nextId' = 1
              /\ timers' = NoTimers
        /\ activation' = "active" => runs' >= 1
      ]_vars

\* Just activated on a layout where the text has to be truncated.
C11_Witness ==
    /\ activation = "active"
    /\ runs = 1
    /\ nextId = 1
    /\ disposeCalls = 0
    /\ textContent = FittedResult
    /\ textContent # originalText

\* C12: when the computed available width is zero or negative, the run makes
\* no probe, leaves the target showing the original text and returns it
\* untruncated, with an empty suffix.
C12_NoBudgetSkips ==
    (lastRun.ran /\ AdjustedWidth(lastRun.avail, lineLimit) <= 0) =>
        /\ ~lastRun.result.truncated
        /\ lastRun.result.firstHalf = originalText
        /\ lastRun.result.secondHalf = <<>>
        /\ lastRun.result.probes = 0
        /\ lastRun.rendered = originalText
        /\ textContent = originalText

\* The available width is exactly zero, and the text overflows the target.
C12_Witness ==
    /\ lastRun.ran
    /\ lastRun.avail = 0
    /\ lastRun.cw > 0
    /\ checkOverflow(originalText, lastRun.cw, lineLimit)
    /\ ~lastRun.result.truncated
    /\ textContent = originalText

\* C13: a run on a target of client width 0 (with a positive budget) defers:
\* it returns the original text untruncated without a probe, shows the
\* original text and leaves the subscription in place; the run after a
\* deferred one is started by a notification and is the whole pipeline on
\* the layout of that moment.
C13_ZeroWidthDefers ==
    [][ runs' > runs =>
          /\ (clientWidth = 0 /\ AdjustedWidth(availableWidth, lineLimit') > 0) =>
                /\ deferral' = "deferred"
                /\ textContent' = originalText'
                /\ observing'
                /\ \A before \in {textContent, originalText'} :
                      LET r == runTruncateResult(clientWidth, availableWidth, before)
                      IN /\ ~r.truncated
                         /\ r.firstHalf = originalText'
                         /\ r.secondHalf = <<>>
                         /\ r.probes = 0
          /\ deferral = "deferred" =>
                /\ burst > 0
                /\ textContent' = FittedResult
      ]_vars

\* A deferred run was retried after a notification, and the retry truncated.
C13_Witness ==
    /\ deferral = "retried"
    /\ runs >= 2
    /\ clientWidth > 0
    /\ textContent = FittedResult
    /\ textContent # originalText

\* C14: a call with an empty or absent originalText is a no-op: it leaves
\* the target's content, the subscription, the timers and the run count as
\* they were, and so does every call of the disposer it returned.
C14_EmptyTextNoop ==
    [][ /\ (activation = "idle" /\ activation' # "idle"
                /\ options.originalText \in {Undefined, Str(<<>>)}) =>
              /\ activation' = "noop"
              /\ UNCHANGED <<textContent, observing, observeTarget, resizeTimeout,
                             timers, nextId, runs>>
        /\ activation = "noop" =>
              UNCHANGED <<textContent, activation, observing, observeTarget,
                          resizeTimeout, timers, nextId, runs>>
      ]_vars

\* The text was absent, the target had content, the disposer has been called.
C14_Witness ==
    /\ activation = "noop"
    /\ options.originalText = Undefined
    /\ disposeCalls > 0
    /\ textContent # <<>>
    /\ ~observing
    /\ timers = NoTimers

\* C15: with ellipsisSymbol omitted or not a string, or lineLimit omitted or
\* not a number, the call runs the pipeline with the default ellipsis symbol
\* (the one-character ellipsis) and the default line limit 1 in their place.
C15_DocumentedDefaults ==
    activation = "active" =>
        /\ runs = 1
        /\ ellipsisSymbol = IF options.ellipsisSymbol.type = "string"
                            THEN options.ellipsisSymbol.str
                            ELSE HorizontalEllipsis
        /\ lineLimit = IF options.lineLimit.type = "number"
                       THEN options.lineLimit.num
                       ELSE 1
        /\ disposeCalls = 0 => textContent = FittedResult

\* C16: the line limit handed to the engine is an integer >= 1, whatever
\* value the caller supplied.
C16_LineLimitAtLeastOne ==
    activation = "active" => lineLimit >= 1

\* The final content of a run, from its result.
FinalContent(r) ==
    IF r.truncated THEN r.firstHalf \o r.ellipsisSymbol \o r.secondHalf
    ELSE originalText

C18_NeverObservesTarget ==
    observeTarget # "targetElement"

\* C19: an activation subscribes to one element: the bounding element if
\* supplied, otherwise the shadow host of the target, otherwise the
\* target's offset parent, otherwise the target itself.
C19_ObserveTargetPriority ==
    /\ activation = "active" =>
          /\ options.boundingElement => observeTarget = "boundingElement"
          /\ (~options.boundingElement /\ options.targetElement.shadowRoot) =>
                observeTarget = "host"
          /\ (~options.boundingElement /\ ~options.targetElement.shadowRoot
                  /\ options.targetElement.offsetParent) =>
                observeTarget = "offsetParent"
          /\ (~options.boundingElement /\ ~options.targetElement.shadowRoot
                  /\ ~options.targetElement.offsetParent) =>
                observeTarget = "targetElement"
    /\ activation # "active" => observeTarget = "none"

\* A bounding element was supplied for a target inside a shadow tree.
C19_Witness ==
    /\ activation = "active"
    /\ options.boundingElement
    /\ options.targetElement.shadowRoot
    /\ observeTarget = "boundingElement"

----------------------------------------------------------------------------
(* Properties of the measure cache (CacheSpec) *)

\* C20: each (character, fontFamily, fontSize) is measured live at most
\* once, and a request for a triple that has been measured live, for a
\* character the table does not hold, returns the cached width and neither
\* measures nor changes the cache.
C20_MeasuredAtMostOnce ==
    [][ /\ \A t \in Triples : liveMeasurements'[t] <= 1
        /\ lastWidth'.tick # lastWidth.tick =>
              LET t == <<lastWidth'.character, lastWidth'.fontFamily,
                         lastWidth'.fontSize>>
                  key == cacheKey(t[1], t[2], t[3])
              IN (liveMeasurements[t] >= 1 /\ ~InTable(fontWidthMap, t[1], t[2])) =>
                    /\ key \in DOMAIN measureCache
                    /\ lastWidth'.width = measureCache[key]
                    /\ lastWidth'.source = "cache"
                    /\ UNCHANGED <<measureCache, liveMeasurements>>
      ]_vars

\* The last request was served from the cache, for a triple measured once,
\* while other triples have been measured too.
C20_Witness ==
    /\ lastWidth.asked
    /\ lastWidth.source = "cache"
    /\ liveMeasurements[<<lastWidth.character, lastWidth.fontFamily,
                           lastWidth.fontSize>>] = 1
    /\ Cardinality(DOMAIN measureCache) >= 2

\* C21: the measure cache is append-only and keyed injectively: an entry is
\* never overwritten or removed, distinct triples have distinct keys, every
\* entry belongs to one live measurement, and a request answered from the
\* cache is for a triple that was itself measured live.
C21_AppendOnlyInjective ==
    [][ /\ \A key \in DOMAIN measureCache :
              /\ key \in DOMAIN measureCache'
              /\ measureCache'[key] = measureCache[key]
        /\ \A t1, t2 \in Triples :
              t1 # t2 => cacheKey(t1[1], t1[2], t1[3]) # cacheKey(t2[1], t2[2], t2[3])
        /\ Cardinality(DOMAIN measureCache') = TotalMeasurements(liveMeasurements')
        /\ (lastWidth'.tick # lastWidth.tick /\ lastWidth'.source = "cache") =>
              liveMeasurements[<<lastWidth'.character, lastWidth'.fontFamily,
                                 lastWidth'.fontSize>>] >= 1
      ]_vars

\* Two triples that differ in the font size only are both cached, with
\* different widths, and the last request was answered from the cache.
C21_Witness ==
    /\ lastWidth.source = "cache"
    /\ \E c \in CacheChars, f \in FontFamilies :
          /\ \A size \in FontSizes : cacheKey(c, f, size) \in DOMAIN measureCache
          /\ \E s1, s2 \in FontSizes :
                measureCache[cacheKey(c, f, s1)] # measureCache[cacheKey(c, f, s2)]

\* C22: the table is replaced wholesale, and a request for a character the
\* installed table holds returns its entry scaled by fontSize / 16 and leaves
\* the cache alone, whatever was cached or installed before; a request for
\* a character the installed table does not hold is not answered from a
\* table.
C22_InstalledTableWins ==
    [][ /\ fontWidthMap' \in FontWidthMaps
        /\ lastWidth'.tick # lastWidth.tick =>
              IF /\ lastWidth'.fontFamily \in DOMAIN fontWidthMap
                 /\ lastWidth'.character \in DOMAIN fontWidthMap[lastWidth'.fontFamily]
              THEN /\ 16 * lastWidth'.width =
                         fontWidthMap[lastWidth'.fontFamily][lastWidth'.character]
                            * lastWidth'.fontSize
                   /\ lastWidth'.source = "table"
                   /\ UNCHANGED <<measureCache, liveMeasurements>>
              ELSE lastWidth'.source # "table"
      ]_vars

\* A request answered from the custom table, for a triple that was measured
\* and cached while the default table was installed.
C22_Witness ==
    /\ fontWidthMap = customFontWidthMap
    /\ lastWidth.source = "table"
    /\ cacheKey(lastWidth.character, lastWidth.fontFamily, lastWidth.fontSize)
           \in DOMAIN measureCache

\* C28 as stated: the budget the engine uses is availableWidth * lineLimit
\* less the width of one "W" when lineLimit > 1, and availableWidth itself
\* when lineLimit = 1.
C28_BudgetLessOneW ==
    budgetCall.asked =>
        budgetCall.budget =
            IF budgetCall.lineLimit > 1
            THEN budgetCall.availableWidth * budgetCall.lineLimit - budgetCall.wWidth
            ELSE budgetCall.availableWidth

\* C28 amended: the multi-line step leaves availableWidth unchanged at
\* lineLimit = 1 and otherwise replaces it by availableWidth * lineLimit less
\* a reserve, which is the width of one "W" in the width-summing engines and
\* the fixed 20 px in the binary-search engine; the width-summing engines
\* then take a further 2 px off, whatever the line limit.
C28_BudgetLessReserve ==
    budgetCall.asked =>
        /\ budgetCall.lineLimit = 1 => budgetCall.adjusted = budgetCall.availableWidth
        /\ budgetCall.lineLimit > 1 =>
              budgetCall.availableWidth * budgetCall.lineLimit - budgetCall.adjusted =
                  IF budgetCall.engine = "widthSum" THEN budgetCall.wWidth ELSE 20
        /\ budgetCall.adjusted - budgetCall.budget =
              IF budgetCall.engine = "widthSum" THEN 2 ELSE 0

\* The binary-search engine computed a two-line budget for a font whose "W"
\* is not 20 px wide.
C28_Witness ==
    /\ budgetCall.asked
    /\ budgetCall.engine = "binarySearch"
    /\ budgetCall.lineLimit > 1
    /\ budgetCall.wWidth # MultilineBuffer
    /\ budgetCall.availableWidth > 0
    /\ budgetCall.budget <= 0

C30_SharedBudgetAsStated ==
    widthCall.fn = "getAvailableWidthWhenSharing" =>
        LET doc == document
            bounding == widthCall.boundingElement
            sameShadowTree == doc.shadowAt >= 1 /\ bounding <= doc.shadowAt
            boundingIsHost == doc.shadowAt >= 1 /\ bounding = doc.shadowAt + 1
            edges == [j \in 1..doc.depth |->
                         doc.boxes[j].padding + doc.boxes[j].border
                            + doc.boxes[j].margin]
            count == 1 + Len(doc.siblings[bounding - 1])
        IN IF sameShadowTree \/ boundingIsHost
           THEN /\ widthCall.den = 1
                /\ widthCall.num = innerWidth(doc.boxes[bounding]) - edges[1]
           ELSE widthCall.num * count =
                   widthCall.den * (getAvailableWidth(doc, bounding)
                                       - count * SumOver(edges, 1..(bounding - 1)))

\* The component has been updated and has no callback pending: no
\* microtask, no animation frame, no debounce timer.
Settled(c) ==
    /\ c.state = "created"
    /\ c.hasUpdated
    /\ ~MicrotasksPending(c)
    /\ c.frames = <<>>
    /\ \A k \in DOMAIN c.subscriptions : ~c.subscriptions[k].timer

\* C24: in variant "end" the content element holds the full slotted text,
\* with no middle cut, also after a switch from "middle" and after resize
\* notifications (stated for a visible, connected component with a
\* non-empty slotted text, once every pending callback has run).
C24_EndModeShowsFullText ==
    (/\ Settled(component)
     /\ component.connected
     /\ component.hasBeenVisible
     /\ component.variant = "end"
     /\ component.sourceText # <<>>)
        => component.contentText = component.sourceText

\* C25: once disconnectedCallback has run, and for as long as the component
\* stays disconnected, no activation of truncateOnResize is live (no resize
\* observer, no debounce timer) and neither the slot observer nor the
\* intersection observer observes.
C25_NothingLiveWhileDisconnected ==
    (component.state = "created" /\ component.hasUpdated /\ ~component.connected)
        => /\ component.subscriptions = NoSubscriptions
           /\ component.slotObserver # "observing"
           /\ component.intersectionObserver # "observing"

\* C26: with no tooltip attribute given by the user, the tooltip is the
\* current slotted text once the component has taken a content change in
\* (stated for a non-empty text, with no callback pending).
C26_TooltipFollowsContent ==
    (/\ Settled(component)
     /\ ~component.userTooltip
     /\ component.sourceText # <<>>
     /\ component.slotContent = component.sourceText)
        => component.tooltip = component.sourceText

\* C27 as stated: until the component has first been visible there is no
\* activation, the content element shows the full slotted text, and the
\* intersection observer is created at most once and does not observe after
\* the first intersection (no callback pending).
C27_DeferredShowsSourceText ==
    component.state = "created" =>
        /\ ~component.hasBeenVisible => component.subscriptions = NoSubscriptions
        /\ (Settled(component) /\ ~component.hasBeenVisible) =>
              component.contentText = component.sourceText
        /\ component.observersCreated <= 1
        /\ component.hasBeenVisible => component.intersectionObserver # "observing"

\* C27 amended: until the component has first been visible no activation
\* exists and no disposer is stored, and the content element holds the
\* full text the component last read from its slot whenever that text is
\* non-empty; the intersection observer is created at most once and never
\* observes once the component has been visible; the first intersection
\* drops the observer and, if a truncation is pending, requests the frame
\* whose setup, for a middle-mode component with a non-empty text, runs the
\* pass and stores its disposer.
C27_DeferredUntilVisible ==
    /\ [](component.state = "created" =>
            /\ ~component.hasBeenVisible =>
                  /\ component.subscriptions = NoSubscriptions
                  /\ component.cleanupTruncate = 0
            /\ (/\ component.hasUpdated
                 /\ ~component.hasBeenVisible
                 /\ component.slotContent # <<>>) =>
                  component.contentText = component.slotContent
            /\ component.observersCreated <= 1
            /\ component.hasBeenVisible =>
                  component.intersectionObserver # "observing")
    /\ [][ /\ (/\ component.state = "created"
                /\ component.hasUpdated
                /\ ~component.hasBeenVisible
                /\ component'.hasBeenVisible) =>
                 /\ component.intersectionObserver = "observing"
                 /\ component.inViewport
                 /\ component'.intersectionObserver = "undefined"
                 /\ component.pendingTruncation =>
                       component'.frames = Append(component.frames, "setup")
           /\ (/\ component.state = "created"
                /\ component.hasBeenVisible
                /\ component.frames # <<>>
                /\ component'.frames = Tail(component.frames)
                /\ Head(component.frames) = "setup"
                /\ component.variant = "middle"
                /\ component.slotContent # <<>>) =>
                 /\ ~component'.pendingTruncation
                 /\ component'.cleanupTruncate \in DOMAIN component'.subscriptions
                 /\ component'.contentText =
                       PassContent(component, component.slotContent)
         ]_vars

\* A component that was out of view at its first update has been reported
\* intersecting, and the pending truncation has run and cut the text.
C27_Witness ==
    /\ component.state = "created"
    /\ component.observersCreated = 1
    /\ component.hasBeenVisible
    /\ component.intersectionObserver = "undefined"
    /\ ~component.pendingTruncation
    /\ component.subscriptions # NoSubscriptions
    /\ component.slotContent # <<>>
    /\ component.contentText # component.slotContent

\* C23: every instance of a class returned by createMiddleEllipsis(config)
\* has its truncation utility created with that config.
C23_UtilityCreatedWithConfig ==
    element.state = "created" => element.utilsConfig = element.classConfig

----------------------------------------------------------------------------
(* Properties of the component over every interleaving of its callbacks *)

\* C31: for one TextTruncate instance at most one activation of
\* truncateOnResize is live at any time, and whenever a setup stores a new
\* disposer no earlier activation is still live (the disposer stored before
\* has been called).
C31_OneSubscriptionAtMost ==
    /\ [](component.state = "created" =>
              Cardinality(DOMAIN component.subscriptions) <= 1)
    /\ [][ (/\ component.state = "created"
             /\ component'.cleanupTruncate > 0
             /\ component'.cleanupTruncate # component.cleanupTruncate) =>
               DOMAIN component'.subscriptions = {component'.cleanupTruncate}
         ]_vars

\* A text w is the text t or a prefix + ellipsis + suffix cut of t.
IsCutOf(w, t, ellipsis) ==
    \/ w = t
    \/ \E i \in 0..Len(t), j \in 0..Len(t) :
          w = Slice(t, 0, i) \o ellipsis \o SliceFrom(t, Len(t) - j)

\* C32: once the component has set itself up for the slotted text B
\* (slotContent = B, non-empty), every later write to the content element is
\* B or a prefix + ellipsis + suffix cut of B, never a text derived from the
\* slotted text A it replaced.
C32_NoWriteFromReplacedText ==
    [][ (/\ component.state = "created"
          /\ component.hasUpdated
          /\ component'.slotContent # <<>>
          /\ component'.contentText # component.contentText) =>
            IsCutOf(component'.contentText, component'.slotContent,
                    component'.ellipsisSymbol)
      ]_vars

\* C33: a connected component in middle mode with a non-empty slotted text
\* that has been visible and has no callback pending holds a live
\* activation of truncateOnResize under its stored disposer, also after it
\* was disconnected and connected again.
C33_SubscribedWhenConnected ==
    (/\ Settled(component)
     /\ component.connected
     /\ component.hasBeenVisible
     /\ component.variant = "middle"
     /\ component.sourceText # <<>>
     /\ component.slotContent = component.sourceText)
        => component.cleanupTruncate \in DOMAIN component.subscriptions

----------------------------------------------------------------------------
(* Properties of the search and of the fine-tune pass of one run *)

\* The probe of the binary search for the shared length k.
ProbeAt(k) ==
    Slice(originalText, 0, k) \o ellipsisSymbol
        \o SliceFrom(originalText, Len(originalText) - k)

FitsAt(run, k) == ~checkOverflow(ProbeAt(k), run.cw, lineLimit)

\* The overflow predicate of the run is monotone in k.
MonotoneInK(run) ==
    \A k1, k2 \in 0..(Len(originalText) \div 2) :
        (k1 < k2 /\ ~FitsAt(run, k1)) => ~FitsAt(run, k2)

\* C34: when the overflow predicate is monotone in k and some k fits, the
\* binary search of a run settles on the largest k in 0..floor(len/2) whose
\* probe prefix(k) + ellipsis + suffix(k) does not overflow.
C34_SearchFindsLargestK ==
    (/\ lastRun.ran
     /\ lastRun.result.truncated
     /\ MonotoneInK(lastRun)
     /\ \E k \in 0..(Len(originalText) \div 2) : FitsAt(lastRun, k)) =>
        /\ lastRun.result.searched \in 0..(Len(originalText) \div 2)
        /\ FitsAt(lastRun, lastRun.result.searched)
        /\ \A k \in 0..(Len(originalText) \div 2) :
              FitsAt(lastRun, k) => k <= lastRun.result.searched

\* The search settled on a k above 0 and below floor(len/2): smaller values
\* fit and the next one overflows.
C34_Witness ==
    /\ lastRun.ran
    /\ lastRun.result.truncated
    /\ MonotoneInK(lastRun)
    /\ lastRun.result.searched >= 1
    /\ lastRun.result.searched < Len(originalText) \div 2
    /\ ~FitsAt(lastRun, lastRun.result.searched + 1)

Attempts == lastRun.result.attempts

\* C35 as stated: the growth attempts of the fine-tune pass alternate: after
\* an accepted growth of one end the next attempt is made on the other
\* end, and a growth is accepted only if the rendered result fits.
C35_GrowthAlternates ==
    (lastRun.ran /\ lastRun.result.truncated) =>
        \A i \in 1..Len(Attempts) :
            /\ (Attempts[i].accepted /\ i < Len(Attempts)) =>
                  Attempts[i + 1].end # Attempts[i].end
            /\ Attempts[i].accepted => Fits(Attempts[i].probe, lastRun.cw, lineLimit)

\* C35 amended: every round of the fine-tune pass tries the suffix first
\* and the prefix only when the suffix growth was rejected; after an
\* accepted growth of either end the next attempt is on the suffix again;
\* the pass ends with the round in which both are rejected; each attempt
\* adds one character, and it is accepted exactly if the rendered result
\* fits.
C35_SuffixFirstEachRound ==
    (lastRun.ran /\ lastRun.result.truncated) =>
        /\ \A i \in 1..Len(Attempts) :
            /\ i = 1 => Attempts[i].end = "suffix"
            /\ Attempts[i].end = "prefix" =>
                  /\ i > 1
                  /\ Attempts[i - 1].end = "suffix"
                  /\ ~Attempts[i - 1].accepted
            /\ (Attempts[i].accepted /\ i < Len(Attempts)) =>
                  Attempts[i + 1].end = "suffix"
            /\ (Attempts[i].end = "suffix" /\ ~Attempts[i].accepted) =>
                  /\ i < Len(Attempts)
                  /\ Attempts[i + 1].end = "prefix"
            /\ (Attempts[i].end = "prefix" /\ ~Attempts[i].accepted) =>
                  i = Len(Attempts)
            /\ Attempts[i].accepted <=>
                  Fits(Attempts[i].probe, lastRun.cw, lineLimit)
        /\ Len(lastRun.result.secondHalf) - lastRun.result.searched =
              Cardinality({i \in 1..Len(Attempts) :
                  Attempts[i].end = "suffix" /\ Attempts[i].accepted})
        /\ Len(lastRun.result.firstHalf) - lastRun.result.searched =
              Cardinality({i \in 1..Len(Attempts) :
                  Attempts[i].end = "prefix" /\ Attempts[i].accepted})

\* Two suffix growths accepted in a row, then a round with both rejected.
C35_Witness ==
    /\ lastRun.ran
    /\ lastRun.result.truncated
    /\ \E i \in 1..(Len(Attempts) - 1) :
          /\ Attempts[i].end = "suffix" /\ Attempts[i].accepted
          /\ Attempts[i + 1].end = "suffix" /\ Attempts[i + 1].accepted
    /\ ~Attempts[Len(Attempts)].accepted

\* The source indices the result does not use: firstIndex..lastIndex.
UnusedFirst == Len(lastRun.result.firstHalf)
UnusedLast == Len(originalText) - Len(lastRun.result.secondHalf) - 1

\* C36: a truncated result is locally maximal: extending the suffix by the
\* next unused character of originalText overflows, and so does extending
\* the prefix by the next unused character.
C36_LocallyMaximal ==
    (lastRun.ran /\ lastRun.result.truncated) =>
        /\ UnusedFirst <= UnusedLast
        /\ ~Fits(lastRun.result.firstHalf \o lastRun.result.ellipsisSymbol
                    \o CharAt(originalText, UnusedLast) \o lastRun.result.secondHalf,
                 lastRun.cw, lineLimit)
        /\ ~Fits(lastRun.result.firstHalf \o CharAt(originalText, UnusedFirst)
                    \o lastRun.result.ellipsisSymbol \o lastRun.result.secondHalf,
                 lastRun.cw, lineLimit)

\* The pass grew the prefix after the suffix growth was rejected, and the
\* result leaves at least two characters unused.
C36_Witness ==
    /\ lastRun.ran
    /\ lastRun.result.truncated
    /\ Len(lastRun.result.firstHalf) > lastRun.result.searched
    /\ UnusedFirst < UnusedLast

\* The budget of the run cannot hold the ellipsis with one character on
\* each side (the search settled on k = 0), the ellipsis alone fits, and a
\* single character more fits on the named side.
TieBreak(run) ==
    /\ run.ran
    /\ run.result.truncated
    /\ Len(originalText) >= 2
    /\ run.result.searched = 0
    /\ FitsAt(run, 0)

FrontFits(run) ==
    Fits(CharAt(originalText, 0) \o ellipsisSymbol, run.cw, lineLimit)

BackFits(run) ==
    Fits(ellipsisSymbol \o CharAt(originalText, Len(originalText) - 1),
         run.cw, lineLimit)

\* C37 as stated: when the budget cannot hold the ellipsis plus one
\* character on each side but can hold one more character, the engine
\* tries the front first: its first growth attempt is on the prefix, and
\* the front character is admitted whenever it fits.
C37_FrontBeforeBack ==
    (TieBreak(lastRun) /\ (FrontFits(lastRun) \/ BackFits(lastRun))) =>
        /\ Attempts # <<>>
        /\ Attempts[1].end = "prefix"
        /\ FrontFits(lastRun) => lastRun.result.firstHalf # <<>>

\* C37 amended: in that case the binary-search engine tries the back
\* first: its first growth attempt is on the suffix; the back character is
\* admitted whenever it fits, also when the front character would fit as
\* well; the front character is tried only after a suffix growth was
\* rejected, and the prefix stays empty unless the front character fits on
\* top of the suffix admitted before it.
C37_BackBeforeFront ==
    TieBreak(lastRun) =>
        /\ Attempts # <<>>
        /\ Attempts[1].end = "suffix"
        /\ Attempts[1].probe =
              ellipsisSymbol \o CharAt(originalText, Len(originalText) - 1)
        /\ BackFits(lastRun) <=> lastRun.result.secondHalf # <<>>
        /\ (~BackFits(lastRun) /\ FrontFits(lastRun)) <=>
              (lastRun.result.secondHalf = <<>> /\ lastRun.result.firstHalf # <<>>)
        /\ lastRun.result.firstHalf # <<>> =>
              \E i \in 2..Len(Attempts) :
                  /\ Attempts[i].end = "prefix" /\ Attempts[i].accepted
                  /\ Attempts[i - 1].end = "suffix" /\ ~Attempts[i - 1].accepted

\* Either end alone would fit next to the ellipsis; the back character was
\* admitted and the front character was not.
C37_Witness ==
    /\ TieBreak(lastRun)
    /\ ellipsisSymbol # <<>>
    /\ FrontFits(lastRun)
    /\ BackFits(lastRun)
    /\ lastRun.result.secondHalf # <<>>
    /\ lastRun.result.firstHalf = <<>>

----------------------------------------------------------------------------
(* Properties of the greedy two-pointer engine *)

\* C38: after the greedy pass, the shrink pass and the grow-back pass the
\* returned string is firstHalf + ellipsis + secondHalf, where firstHalf is
\* a prefix of originalText, secondHalf is a suffix of originalText, and no
\* source index is in both.
C38_HalvesArePrefixAndSuffix ==
    (greedyCall.asked /\ greedyCall.truncated) =>
        /\ greedyCall.result =
              greedyCall.grown.firstHalf \o ellipsisSymbol
                  \o greedyCall.grown.secondHalf
        /\ IsPrefix(greedyCall.grown.firstHalf, originalText)
        /\ IsSuffix(greedyCall.grown.secondHalf, originalText)
        /\ Len(greedyCall.grown.firstHalf) + Len(greedyCall.grown.secondHalf)
              <= Len(originalText)

----------------------------------------------------------------------------
(* Properties of setHtmlContent *)

\* What the parser's input stream preprocessing and tree builder leave of a
\* text: CR and CR LF become LF, NUL is dropped.
RECURSIVE Preprocessed(_)
Preprocessed(text) ==
    IF text = <<>> THEN <<>>
    ELSE IF Head(text) = "NUL" THEN Preprocessed(Tail(text))
    ELSE IF Head(text) = "CR"
    THEN <<"LF">> \o Preprocessed(IF Tail(text) # <<>> /\ Head(Tail(text)) = "LF"
                                  THEN Tail(Tail(text)) ELSE Tail(text))
    ELSE <<Head(text)>> \o Preprocessed(Tail(text))

Range(text) == {text[i] : i \in 1..Len(text)}

\* C39 as stated: for any strings first, ellipsis and second, after
\* setHtmlContent the text content of the target is first + ellipsis +
\* second, and the only element created is one span with part="ellipsis"
\* whose text is the ellipsis.
C39_TextRoundTripsAnyString ==
    markupCall.asked =>
        /\ markupCall.dom.textContent =
              markupCall.first \o markupCall.ellipsis \o markupCall.second
        /\ markupCall.dom.elements = 1
        /\ markupCall.dom.spans = <<markupCall.ellipsis>>

\* C39 amended: for any strings (also with &, <, > and double quotes) the
\* only element created is one span with part="ellipsis", no markup or
\* character reference of the strings is interpreted, and the text content
\* is first + ellipsis + second with the span holding the ellipsis, except
\* that the parser turns each carriage return into a line feed and drops
\* each NUL character; strings without those two characters come back
\* unchanged.
C39_TextRoundTripsButControls ==
    markupCall.asked =>
        /\ markupCall.dom.elements = 1
        /\ ~markupCall.dom.inSpan
        /\ markupCall.dom.spans = <<Preprocessed(markupCall.ellipsis)>>
        /\ markupCall.dom.textContent =
              Preprocessed(markupCall.first) \o Preprocessed(markupCall.ellipsis)
                  \o Preprocessed(markupCall.second)
        /\ textContent = markupCall.dom.textContent
        /\ ({"CR", "NUL"} \cap Range(markupCall.first \o markupCall.ellipsis
                                         \o markupCall.second) = {}) =>
              /\ markupCall.dom.textContent =
                    markupCall.first \o markupCall.ellipsis \o markupCall.second
              /\ markupCall.dom.spans = <<markupCall.ellipsis>>

\* Strings that hold an ampersand, a tag and a character reference came
\* back as text.
C39_Witness ==
    /\ markupCall.asked
    /\ "&" \in Range(markupCall.first)
    /\ markupCall.ellipsis = <<"<", "a", ">">>
    /\ markupCall.second = <<"&", "l", "t", ";">>
    /\ markupCall.dom.textContent =
          markupCall.first \o markupCall.ellipsis \o markupCall.second

----------------------------------------------------------------------------
(* Termination of one run of truncateText *)

\* The iterations of the two ancestor walks together are at most the number
\* of elements, those of the binary search at most the halvings of its range
\* 0..floor(n / 2), the rounds of the fine-tune pass at most the characters
\* the search left unused plus the one round that adds nothing.
BoundedLoops ==
    LET n == Len(originalText)
    IN /\ pipeline.walkSteps + pipeline.sharingSteps <= document.depth
       /\ \/ pipeline.searchSteps = 0
          \/ 2 ^ (pipeline.searchSteps - 1) <= SearchRight(n) + 1
       /\ pipeline.rounds <= Max(0, n - 2 * pipeline.ft.searched) + 1
       /\ Len(pipeline.ft.attempts) <= 2 * pipeline.rounds
       /\ pipeline.ft.probes = 0
             \/ pipeline.ft.probes =
                   pipeline.searchSteps + Len(pipeline.ft.attempts)

\* A walk that has ended stands on its end element or on an element without
\* a parent element, or was not started for want of an offset parent.
WalksStopAtEndOrRoot ==
    /\ pipeline.walkEnd = "end" =>
          pipeline.walkStop = pipeline.offsetParentElement
    /\ pipeline.walkEnd = "root" =>
          /\ parentElement(document, pipeline.walkStop) = 0
          /\ pipeline.walkStop # pipeline.offsetParentElement
    /\ pipeline.walkEnd = "detached" => pipeline.offsetParentElement = 0
    /\ pipeline.sharingEnd = "end" =>
          pipeline.sharingStop = pipeline.boundingElement
    /\ pipeline.sharingEnd = "root" =>
          /\ parentElement(document, pipeline.sharingStop) = 0
          /\ pipeline.sharingStop # pipeline.boundingElement
    /\ pipeline.pc \in {"budget", "search", "fineTune", "done"} =>
          \/ pipeline.walkEnd # "none"
          \/ pipeline.walkOf = 0
    /\ (pipeline.pc \in {"budget", "search", "fineTune", "done"}
            /\ pipeline.walkOf # 0 /\ pipeline.boundingElement # 0) =>
          pipeline.sharingEnd # "none"

\* C40: a single pipeline run terminates for every text and every element
\* tree: truncateText returns, the binary-search loop and the fine-tune loop
\* make a bounded number of probes, and the ancestor walks of
\* getAvailableWidth and getAvailableWidthWhenSharing stop at their end
\* element or at the root of the tree they are in, also when the walk
\* crosses the shadow boundary and when the bounding element is not among
\* the target's ancestors.
C40_RunTerminates ==
    /\ [](BoundedLoops /\ WalksStopAtEndOrRoot)
    /\ <>(pipeline.pc = "done")

\* A run returned a truncated text after two probes of the binary search
\* and a fine-tune probe, its sharing walk having ended at the root of the
\* target's tree without meeting the bounding element.
C40_Witness ==
    /\ pipeline.pc = "done"
    /\ pipeline.result.truncated
    /\ pipeline.searchSteps >= 2
    /\ Len(pipeline.result.attempts) >= 1
    /\ pipeline.walkSteps >= 1
    /\ pipeline.sharingEnd = "root"
    /\ pipeline.sharingSteps >= 1

====
